---- MODULE Spec2Model ----
(***************************************************************************)
(* Model of the media indexing and thumbnail pipeline of py-home-gallery.  *)
(*                                                                         *)
(*   SpecPool   ThumbnailWorker (workers/thumbnail_worker.py): the worker  *)
(*              threads, the bounded job queue, the statistics and the     *)
(*              client calls start, stop, add_job, wait_completion.        *)
(*                                                                         *)
(*   SpecThumb  the thumbnail file of one video under concurrent         *)
(*              requests: serve_thumbnail (routes/media.py),               *)
(*              ensure_thumbnail_exists and generate_video_thumbnail       *)
(*              (media/thumbnails.py), one step per system call.           *)
(*   SpecName   the thumbnail filename as thumbnails.py, routes/media.py   *)
(*              and workers/preload.py each compute it.                    *)
(*   SpecCache  SimpleCache (utils/cache.py) under a clock.                *)
(*   SpecScan   scan_directory (media/scanner.py) on the directory cache.  *)
(*                                                                         *)
(* Every thread is modelled at the granularity of the statements of its    *)
(* code between which another thread can run; a region executed under      *)
(* stats_lock or under the queue's own mutex is one step.                  *)
(***************************************************************************)
EXTENDS Integers, Sequences, FiniteSets, Bags, TLC

(***************************************************************************)
(* Bounds of the model.                                                    *)
(***************************************************************************)
\* number of add_job calls
MaxJobs == 2
\* capacity of job_queue (the max_queue_size constructor argument)
MaxQueueSize == 1
\* number of start() calls that get past the running check
MaxStarts == 1
\* number of further start() calls, on a pool started before, that get past
\* the running check
MaxRestarts == 1
\* number of add_job calls where the progress of the threads is checked
MaxLiveJobs == 1
\* number of files under the media root that the preload scans
MaxFiles == 2

\* characters in a relative media path
MaxPathLen == 3

\* characters in a relative path given to get_safe_path
MaxRelLen == 5

\* files that os.walk finds under the directory of a gallery
MaxEntries == 2

\* pages of a gallery that are asked for
MaxPage == 2

\* the ThumbnailWorker objects get_thumbnail_worker builds
MaxPools == 3

\* the clock stops here
MaxTime == 2

\* the largest ttl_seconds a cache is built with
MaxTtl == 2

\* thumbnail names longer than this are replaced by a hash
LongName == 200

\* default of the num_threads constructor argument
num_threads == 2

\* the thread that submits jobs and waits for them (the preload thread, the
\* body of test_worker_performance)
Producers == {"producer"}
\* the thread that starts and stops the pool (get_thumbnail_worker,
\* shutdown_thumbnail_worker)
Controllers == {"controller"}
Clients == Producers \cup Controllers
JobIds == 1 .. MaxJobs

VARIABLES
    running,            \* self.running
    job_queue,          \* self.job_queue: the items, oldest first
    unfinished_tasks,   \* job_queue.unfinished_tasks (put: +1, task_done: -1)
    threads,            \* len(self.threads)
    stats,              \* self.stats
    workers,            \* the worker threads ever started: a bag of
                        \* [pc: position in _worker, job: the job dequeued]
    cpc,                \* position of every client thread
    cret,               \* code path of the client's last add_job return
    cjob,               \* the job a client is adding
    ci,                 \* loop index of a client inside start() / stop()
    nextJob,            \* number of add_job calls so far
    nStarts,            \* number of start() calls past the running check
    accepted,           \* history: ids of the jobs whose put succeeded
    counted,            \* history: per job, number of counter increments
    renders             \* history: number of renders that returned True, and
                        \* that returned False or raised

VARIABLES
    source,             \* the video file of the request exists on disk
    thumb,              \* the file at thumbnail_path: "absent", "empty" (zero
                        \* bytes), "partial" (bytes, no valid PNG), "complete"
    owner,              \* the thread whose open() last truncated that file
    req                 \* the threads that touch it: position and locals

VARIABLES
    path,               \* a relative media path, as a sequence of characters
    names               \* the thumbnail filename each component computed for it

VARIABLES
    cache,              \* SimpleCache._cache: key -> (value, timestamp)
    ttl,                \* SimpleCache._ttl
    now,                \* time.time()
    stored,             \* per key, the last set() not invalidated or cleared
    last,               \* the last SimpleCache operation and what it returned
    fs,                 \* the media files under the scanned directory
    scan                \* the threads inside scan_directory

VARIABLES
    media_root,         \* per file under media_root: "none", "video", "image"
    thumbs,             \* per file, the file at its thumbnail path: "absent",
                        \* "empty" (zero bytes), "valid"
    ppc,                \* position of the ThumbnailPreload thread
    media_files,        \* preload_worker's media_files
    video_files,        \* preload_worker's video_files
    queued,             \* the files handed to worker.add_job by the preload
    pend                \* how preload_worker ended

VARIABLES
    boot,               \* how far the start of the program has come
    cache_ttl,          \* config.cache_ttl
    caches,             \* the directory caches built so far: per SimpleCache
                        \* object, the ttl_seconds given to its constructor
    global_cache,       \* utils.cache._directory_cache: 0 for None, or the
                        \* index of an object in caches
    directory_cache     \* media.scanner.directory_cache, in the same way;
                        \* 0 while the module is not imported

poolVars == <<running, job_queue, unfinished_tasks, threads, stats, workers,
              cpc, cret, cjob, ci, nextJob, nStarts, accepted, counted,
              renders>>

thumbVars == <<source, thumb, owner, req>>

nameVars == <<path, names>>

cacheVars == <<cache, ttl, now, stored, last, fs, scan>>

preVars == <<media_root, thumbs, ppc, media_files, video_files, queued, pend>>

VARIABLES
    stale               \* history: per cache key, the threads that called
                        \* scan_directory only after an
                        \* invalidate_directory_cache which the entry now
                        \* under the key was stored before

histVars == <<stale>>

bootVars == <<boot, cache_ttl, caches, global_cache, directory_cache>>

VARIABLES
    base_dir,           \* get_safe_path's base_dir
    relative_path,      \* get_safe_path's relative_path
    safe_path           \* what get_safe_path returned

safeVars == <<base_dir, relative_path, safe_path>>

VARIABLES
    folder_path,        \* the directory a gallery shows
    walk_ok,            \* os.scandir can read that directory
    listing,            \* the files os.walk finds under it, in its order
    dicts,              \* the media_info dicts that the cache refers to
    lists,              \* the list objects that the cache refers to, each a
                        \* sequence of positions in dicts
    cached,             \* directory_cache: per include_dimensions, 0 or the
                        \* position in lists of the list stored under the key
    call,               \* the last call made
    result              \* what it returned

galVars ==
    <<folder_path, walk_ok, listing, dicts, lists, cached, call, result>>

VARIABLES
    generate            \* per rendering thread, its call of
                        \* generate_video_thumbnail: where it is, its local
                        \* variable clip, the VideoFileClip it opened, what
                        \* the call returns

clipVars == <<generate>>

VARIABLES
    global_worker,      \* thumbnail_worker._global_worker: 0 for None, or
                        \* the number of a ThumbnailWorker object
    pools,              \* per ThumbnailWorker object built by
                        \* get_thumbnail_worker, whether it is running
    getters             \* per caller of get_thumbnail_worker, where it is
                        \* and what its last call returned

globVars == <<global_worker, pools, getters>>

vars ==
    <<poolVars, thumbVars, nameVars, cacheVars, preVars, bootVars, histVars,
      safeVars, galVars, clipVars, globVars>>

\* what the pool leaves alone
offPool == <<thumbVars, nameVars, cacheVars, preVars, bootVars,
    histVars, safeVars, galVars,
    clipVars, globVars>>

\* what the thumbnail store leaves alone
offThumb == <<poolVars, nameVars, cacheVars, preVars, bootVars,
    histVars, safeVars, galVars,
    clipVars, globVars>>

\* what the naming of thumbnails leaves alone
offName == <<poolVars, thumbVars, cacheVars, preVars, bootVars,
    histVars, safeVars, galVars,
    clipVars, globVars>>

\* what the directory cache and the scanner leave alone
offCache ==
    <<poolVars, thumbVars, nameVars, preVars, bootVars, safeVars, galVars,
    clipVars, globVars>>

\* what the preload leaves alone
offPreload ==
    <<poolVars, thumbVars, nameVars, cacheVars, bootVars, histVars, safeVars, galVars,
    clipVars, globVars>>

\* what the start of the program leaves alone
offBoot == <<poolVars, thumbVars, nameVars, preVars, histVars, safeVars, galVars,
    clipVars, globVars>>

\* what get_safe_path leaves alone
offSafe == <<poolVars, thumbVars, nameVars, cacheVars, preVars, bootVars,
    histVars, galVars,
    clipVars, globVars>>

\* what the gallery leaves alone
offGallery == <<poolVars, thumbVars, nameVars, cacheVars, preVars, bootVars,
    histVars, safeVars,
    clipVars, globVars>>

(***************************************************************************)
(* ThumbnailWorker: data                                                   *)
(***************************************************************************)
\* A job (video_path, thumbnail_path, callback) is its number, in the order
\* of the add_job calls. Whether it has a callback is read only by the
\* worker's "if callback:", and is decided there.
\* The None item stop() puts on the queue; also "no job" of a thread:
PoisonPill == 0

\* a worker thread at position pc of _worker, holding job
Thread(pc, job) == [pc |-> pc, job |-> job]

\* one worker thread moves from state t to state u
Moved(ws, t, u) == (ws (-) SetToBag({t})) (+) SetToBag({u})

\* the worker threads that have not left the loop of _worker
Live(ws) == {t \in BagToSet(ws) : t.pc # "stopped"}

\* the positions of _worker inside callback(video_path, thumbnail_path,
\* True) and callback(video_path, thumbnail_path, False)
InCallback == {"callback", "callback_failed"}

\* a worker that goes back to the loop once the render is over
AbandonsJob(callback, res) == "loop"

\* "if callback:" after the counter: the callback gets True where the render
\* returned True, False where it returned False or raised; without a callback
\* the finally clause is next
AfterRender(callback, res) ==
    IF callback
    THEN IF res = "ok" THEN "callback" ELSE "callback_failed"
    ELSE "task_done"

\* a worker thread that a raising callback ends
CallbackUncaught(raised) == IF raised THEN "stopped" ELSE "task_done"

\* try: callback(...) except Exception: logger.error(...): the finally
\* clause is next whether the callback returned or raised
AfterCallback(raised) == "task_done"

\* a queue without a capacity
NeverFull(q) == FALSE

\* a capacity test that is off by one
FullOffByOne(q) == Len(q) > MaxQueueSize

\* queue.Queue.full() for a queue built with maxsize = max_queue_size
Full(q) == Len(q) >= MaxQueueSize

\* queue.Queue.qsize()
qsize(q) == Len(q)

\* a worker whose "except Exception" branch forgets the counter
RecordResultNoRaise(st, res) ==
    IF res = "ok"
    THEN [st EXCEPT !.jobs_completed = @ + 1]
    ELSE IF res = "fail"
         THEN [st EXCEPT !.jobs_failed = @ + 1]
         ELSE st

\* the three branches of _worker that update a counter:
\* render returned True, returned False, raised
RecordResult(st, res) ==
    IF res = "ok"
    THEN [st EXCEPT !.jobs_completed = @ + 1]
    ELSE [st EXCEPT !.jobs_failed = @ + 1]

\* an add_job without the running check
NeverRefuse(r) == FALSE

\* add_job's first statement: refuse when the pool is not running
NotRunning(r) == ~r

\* a stop without the running check
StopsAgain(r) == FALSE

\* stop's first statement: return when the pool is not running
AlreadyStopped(r) == ~r

\* a wait that polls for an empty queue instead of joining it
ReleasedWhenEmpty(unfinished) == job_queue = <<>>

\* queue.Queue.join(): released when no task is unfinished
JoinReleased(unfinished) == unfinished = 0

\* what get_stats() returns
get_stats ==
    [jobs_completed |-> stats.jobs_completed,
     jobs_failed    |-> stats.jobs_failed,
     jobs_pending   |-> stats.jobs_pending,
     running        |-> running,
     num_threads    |-> num_threads,
     queue_size     |-> qsize(job_queue)]

(***************************************************************************)
(* ThumbnailWorker.__init__                                                *)
(***************************************************************************)
InitPool ==
    /\ running = FALSE
    /\ job_queue = <<>>
    /\ unfinished_tasks = 0
    /\ threads = 0
    /\ stats = [jobs_completed |-> 0, jobs_failed |-> 0, jobs_pending |-> 0]
    /\ workers = EmptyBag
    /\ cpc = [c \in Clients |-> "idle"]
    /\ cret = [c \in Clients |-> "none"]
    /\ cjob = [c \in Clients |-> PoisonPill]
    /\ ci = [c \in Clients |-> 0]
    /\ nextJob = 0
    /\ nStarts = 0
    /\ accepted = {}
    /\ counted = [j \in JobIds |-> 0]
    /\ renders = [ok |-> 0, failed |-> 0]

(***************************************************************************)
(* ThumbnailWorker._worker                                                 *)
(***************************************************************************)
clientVars == <<threads, cpc, cret, cjob, ci, nextJob, nStarts, accepted>>

\* while self.running:
WorkerLoop(t) ==
    /\ t.pc = "loop"
    /\ workers' = Moved(workers, t,
                        Thread(IF running THEN "get" ELSE "stopped", t.job))
    /\ UNCHANGED <<running, job_queue, unfinished_tasks, stats, counted, renders>>
    /\ UNCHANGED <<clientVars, offPool>>

\* job = self.job_queue.get(timeout=1): a job is processed, None breaks the
\* loop, queue.Empty after the timeout goes round the loop again
WorkerGet(t) ==
    /\ t.pc = "get"
    /\ IF job_queue # <<>>
       THEN /\ job_queue' = Tail(job_queue)
            /\ workers' = Moved(workers, t,
                                IF Head(job_queue) = PoisonPill
                                THEN Thread("stopped", PoisonPill)
                                ELSE Thread("render", Head(job_queue)))
       ELSE /\ workers' = Moved(workers, t, Thread("loop", PoisonPill))
            /\ UNCHANGED job_queue
    /\ UNCHANGED <<running, unfinished_tasks, stats, counted, renders>>
    /\ UNCHANGED <<clientVars, offPool>>

\* success = generate_video_thumbnail(video_path, thumbnail_path), then
\* with self.stats_lock: self.stats['jobs_completed' or 'jobs_failed'] += 1
\* (the render touches no state of the pool, so the two are one step)
WorkerRender(t) ==
    /\ t.pc = "render"
    /\ \E res \in {"ok", "fail", "raise"}, callback \in BOOLEAN :
          /\ stats' = RecordResult(stats, res)
          /\ renders' = IF res = "ok"
                        THEN [renders EXCEPT !.ok = @ + 1]
                        ELSE [renders EXCEPT !.failed = @ + 1]
          /\ workers' = Moved(workers, t,
                              Thread(AfterRender(callback, res), t.job))
    /\ counted' = [counted EXCEPT ![t.job] = @ + 1]
    /\ UNCHANGED <<running, job_queue, unfinished_tasks>>
    /\ UNCHANGED <<clientVars, offPool>>

\* callback(video_path, thumbnail_path, success) returns or raises
WorkerCallback(t) ==
    /\ t.pc \in InCallback
    /\ \E raised \in BOOLEAN :
          workers' = Moved(workers, t, Thread(AfterCallback(raised), t.job))
    /\ UNCHANGED <<running, job_queue, unfinished_tasks, stats, counted, renders>>
    /\ UNCHANGED <<clientVars, offPool>>

\* finally: self.job_queue.task_done()
WorkerTaskDone(t) ==
    /\ t.pc = "task_done"
    /\ unfinished_tasks' = unfinished_tasks - 1
    /\ workers' = Moved(workers, t, Thread("pending", t.job))
    /\ UNCHANGED <<running, job_queue, stats, counted, renders>>
    /\ UNCHANGED <<clientVars, offPool>>

\* with self.stats_lock: self.stats['jobs_pending'] = self.job_queue.qsize()
WorkerPending(t) ==
    /\ t.pc = "pending"
    /\ stats' = [stats EXCEPT !.jobs_pending = qsize(job_queue)]
    /\ workers' = Moved(workers, t, Thread("loop", PoisonPill))
    /\ UNCHANGED <<running, job_queue, unfinished_tasks, counted, renders>>
    /\ UNCHANGED <<clientVars, offPool>>

(***************************************************************************)
(* ThumbnailWorker.start                                                   *)
(***************************************************************************)
workerVars == <<counted, renders>>

\* if self.running: return
StartBegins(c) ==
    /\ cpc[c] = "idle"
    /\ IF running
       THEN UNCHANGED <<cpc, nStarts>>
       ELSE /\ cpc' = [cpc EXCEPT ![c] = "st_set"]
            /\ nStarts' = nStarts + 1
    /\ UNCHANGED <<running, job_queue, unfinished_tasks, threads, stats,
                   workers, cret, cjob, ci, nextJob, accepted>>
    /\ UNCHANGED <<workerVars, offPool>>

\* a call of start()
StartCheck(c) ==
    /\ nStarts < MaxStarts
    /\ StartBegins(c)

\* a call of start() on a pool that was started before
RestartCheck(c) ==
    /\ MaxStarts <= nStarts
    /\ nStarts < MaxStarts + MaxRestarts
    /\ StartBegins(c)

\* self.running = True; self.threads = []
StartSet(c) ==
    /\ cpc[c] = "st_set"
    /\ running' = TRUE
    /\ threads' = 0
    /\ ci' = [ci EXCEPT ![c] = 0]
    /\ cpc' = [cpc EXCEPT ![c] = "st_spawn"]
    /\ UNCHANGED <<job_queue, unfinished_tasks, stats, workers, cret, cjob,
                   nextJob, nStarts, accepted>>
    /\ UNCHANGED <<workerVars, offPool>>

\* for i in range(self.num_threads): thread.start(); self.threads.append(thread)
StartSpawn(c) ==
    /\ cpc[c] = "st_spawn"
    /\ IF ci[c] < num_threads
       THEN /\ workers' = workers (+) SetToBag({Thread("loop", PoisonPill)})
            /\ threads' = threads + 1
            /\ ci' = [ci EXCEPT ![c] = @ + 1]
            /\ cpc' = cpc
       ELSE /\ cpc' = [cpc EXCEPT ![c] = "idle"]
            /\ UNCHANGED <<workers, threads, ci>>
    /\ UNCHANGED <<running, job_queue, unfinished_tasks, stats, cret, cjob,
                   nextJob, nStarts, accepted>>
    /\ UNCHANGED <<workerVars, offPool>>

(***************************************************************************)
(* ThumbnailWorker.stop                                                    *)
(***************************************************************************)
\* if not self.running: return
StopCheck(c) ==
    /\ cpc[c] = "idle"
    /\ cpc' = [cpc EXCEPT ![c] = IF AlreadyStopped(running) THEN "idle"
                                                             ELSE "sp_set"]
    /\ UNCHANGED <<running, job_queue, unfinished_tasks, threads, stats,
                   workers, cret, cjob, ci, nextJob, nStarts, accepted>>
    /\ UNCHANGED <<workerVars, offPool>>

\* self.running = False
StopSet(c) ==
    /\ cpc[c] = "sp_set"
    /\ running' = FALSE
    /\ ci' = [ci EXCEPT ![c] = 0]
    /\ cpc' = [cpc EXCEPT ![c] = "sp_pill"]
    /\ UNCHANGED <<job_queue, unfinished_tasks, threads, stats, workers, cret,
                   cjob, nextJob, nStarts, accepted>>
    /\ UNCHANGED <<workerVars, offPool>>

\* for _ in range(self.num_threads): self.job_queue.put(None, block=False),
\* queue.Full ignored; then "if wait:"
StopPill(c) ==
    /\ cpc[c] = "sp_pill"
    /\ IF ci[c] < num_threads
       THEN /\ IF Full(job_queue)
               THEN UNCHANGED <<job_queue, unfinished_tasks>>
               ELSE /\ job_queue' = Append(job_queue, PoisonPill)
                    /\ unfinished_tasks' = unfinished_tasks + 1
            /\ ci' = [ci EXCEPT ![c] = @ + 1]
            /\ cpc' = cpc
       ELSE /\ \E wait \in BOOLEAN :
                  cpc' = [cpc EXCEPT ![c] = IF wait THEN "sp_join"
                                                    ELSE "sp_clear"]
            /\ UNCHANGED <<job_queue, unfinished_tasks, ci>>
    /\ UNCHANGED <<running, threads, stats, workers, cret, cjob, nextJob,
                   nStarts, accepted>>
    /\ UNCHANGED <<workerVars, offPool>>

\* for thread in self.threads: thread.join(timeout=5); every join returns
\* when its thread has ended or when the five seconds have passed
StopJoin(c) ==
    /\ cpc[c] = "sp_join"
    /\ cpc' = [cpc EXCEPT ![c] = "sp_clear"]
    /\ UNCHANGED <<running, job_queue, unfinished_tasks, threads, stats,
                   workers, cret, cjob, ci, nextJob, nStarts, accepted>>
    /\ UNCHANGED <<workerVars, offPool>>

\* self.threads = []
StopClear(c) ==
    /\ cpc[c] = "sp_clear"
    /\ threads' = 0
    /\ cpc' = [cpc EXCEPT ![c] = "idle"]
    /\ UNCHANGED <<running, job_queue, unfinished_tasks, stats, workers, cret,
                   cjob, ci, nextJob, nStarts, accepted>>
    /\ UNCHANGED <<workerVars, offPool>>

(***************************************************************************)
(* ThumbnailWorker.add_job                                                 *)
(***************************************************************************)
\* if not self.running: return False
AddJobCheck(c) ==
    /\ cpc[c] = "idle"
    /\ nextJob < MaxJobs
    /\ nextJob' = nextJob + 1
    /\ IF NotRunning(running)
       THEN /\ cret' = [cret EXCEPT ![c] = "not_running"]
            /\ UNCHANGED <<cpc, cjob>>
       ELSE /\ cjob' = [cjob EXCEPT ![c] = nextJob + 1]
            /\ cpc' = [cpc EXCEPT ![c] = "aj_put"]
            /\ cret' = [cret EXCEPT ![c] = "none"]
    /\ UNCHANGED <<running, job_queue, unfinished_tasks, threads, stats,
                   workers, ci, nStarts, accepted>>
    /\ UNCHANGED <<workerVars, offPool>>

\* self.job_queue.put(job, block=False); queue.Full returns False
AddJobPut(c) ==
    /\ cpc[c] = "aj_put"
    /\ IF Full(job_queue)
       THEN /\ cret' = [cret EXCEPT ![c] = "full"]
            /\ cpc' = [cpc EXCEPT ![c] = "idle"]
            /\ cjob' = [cjob EXCEPT ![c] = PoisonPill]
            /\ UNCHANGED <<job_queue, unfinished_tasks, accepted>>
       ELSE /\ job_queue' = Append(job_queue, cjob[c])
            /\ unfinished_tasks' = unfinished_tasks + 1
            /\ accepted' = accepted \cup {cjob[c]}
            /\ cpc' = [cpc EXCEPT ![c] = "aj_stat"]
            /\ UNCHANGED <<cret, cjob>>
    /\ UNCHANGED <<running, threads, stats, workers, ci, nextJob, nStarts>>
    /\ UNCHANGED <<workerVars, offPool>>

\* with self.stats_lock: self.stats['jobs_pending'] = self.job_queue.qsize()
\* return True
AddJobStat(c) ==
    /\ cpc[c] = "aj_stat"
    /\ stats' = [stats EXCEPT !.jobs_pending = qsize(job_queue)]
    /\ cret' = [cret EXCEPT ![c] = "added"]
    /\ cpc' = [cpc EXCEPT ![c] = "idle"]
    /\ cjob' = [cjob EXCEPT ![c] = PoisonPill]
    /\ UNCHANGED <<running, job_queue, unfinished_tasks, threads, workers, ci,
                   nextJob, nStarts, accepted>>
    /\ UNCHANGED <<workerVars, offPool>>

(***************************************************************************)
(* ThumbnailWorker.wait_completion                                         *)
(***************************************************************************)
\* the call of wait_completion()
WaitCall(c) ==
    /\ cpc[c] = "idle"
    /\ cpc' = [cpc EXCEPT ![c] = "join"]
    /\ UNCHANGED <<running, job_queue, unfinished_tasks, threads, stats,
                   workers, cret, cjob, ci, nextJob, nStarts, accepted>>
    /\ UNCHANGED <<workerVars, offPool>>

\* self.job_queue.join() returns; return True
WaitReturn(c) ==
    /\ cpc[c] = "join"
    /\ JoinReleased(unfinished_tasks)
    /\ cpc' = [cpc EXCEPT ![c] = "joined"]
    /\ UNCHANGED <<running, job_queue, unfinished_tasks, threads, stats,
                   workers, cret, cjob, ci, nextJob, nStarts, accepted>>
    /\ UNCHANGED <<workerVars, offPool>>

\* the caller goes on after wait_completion() (in test_worker_performance,
\* to stop() and get_stats())
WaitDone(c) ==
    /\ cpc[c] = "joined"
    /\ cpc' = [cpc EXCEPT ![c] = "idle"]
    /\ UNCHANGED <<running, job_queue, unfinished_tasks, threads, stats,
                   workers, cret, cjob, ci, nextJob, nStarts, accepted>>
    /\ UNCHANGED <<workerVars, offPool>>

(***************************************************************************)
(* The pool and its clients                                                *)
(***************************************************************************)
NextPool ==
    \/ \E t \in BagToSet(workers) : WorkerLoop(t)
    \/ \E t \in BagToSet(workers) : WorkerGet(t)
    \/ \E t \in BagToSet(workers) : WorkerRender(t)
    \/ \E t \in BagToSet(workers) : WorkerCallback(t)
    \/ \E t \in BagToSet(workers) : WorkerTaskDone(t)
    \/ \E t \in BagToSet(workers) : WorkerPending(t)
    \/ \E c \in Controllers : StartCheck(c)
    \/ \E c \in Controllers : StartSet(c)
    \/ \E c \in Controllers : StartSpawn(c)
    \/ \E c \in Controllers : StopCheck(c)
    \/ \E c \in Controllers : StopSet(c)
    \/ \E c \in Controllers : StopPill(c)
    \/ \E c \in Controllers : StopJoin(c)
    \/ \E c \in Controllers : StopClear(c)
    \/ \E c \in Producers : AddJobCheck(c)
    \/ \E c \in Producers : AddJobPut(c)
    \/ \E c \in Producers : AddJobStat(c)
    \/ \E c \in Producers : WaitCall(c)
    \/ \E c \in Producers : WaitReturn(c)
    \/ \E c \in Producers : WaitDone(c)

\* one step of a worker thread that is at t
WorkerStep(t) ==
    /\ BagIn(t, workers)
    /\ \/ WorkerLoop(t)
       \/ WorkerGet(t)
       \/ WorkerRender(t)
       \/ WorkerCallback(t)
       \/ WorkerTaskDone(t)
       \/ WorkerPending(t)

\* one step of a client inside start(), stop(), add_job() or after
\* wait_completion() has been released
ClientStep(c) ==
    \/ StartSet(c)
    \/ StartSpawn(c)
    \/ StopSet(c)
    \/ StopPill(c)
    \/ StopJoin(c)
    \/ StopClear(c)
    \/ AddJobPut(c)
    \/ AddJobStat(c)
    \/ WaitReturn(c)
    \/ WaitDone(c)

\* where a worker thread can be
ThreadStates ==
    [pc : {"loop", "get", "render", "task_done", "pending"} \cup InCallback,
     job : {PoisonPill} \cup JobIds]

\* the operating system schedules every thread that can run: a worker thread
\* takes its next step (get(timeout=1) returns, with an item or with
\* queue.Empty; the render returns), and a client finishes the call it is in.
\* Nothing obliges a client to make another call.
Scheduling ==
    /\ \A t \in ThreadStates : WF_vars(WorkerStep(t))
    /\ \A c \in Clients : WF_vars(ClientStep(c))

\* the part of Scheduling that a thread holding a job needs: the render
\* returns, the callback returns, task_done() returns
Holding == [pc : {"render", "task_done"} \cup InCallback, job : 1 .. MaxLiveJobs]
SchedulingOfJobs == \A t \in Holding : WF_vars(WorkerStep(t))

\* the pool with a producer that submits few jobs
NextFewJobs == NextPool /\ nextJob' <= MaxLiveJobs

\* the pool with callers that start it again after a stop
NextRestart ==
    \/ NextPool
    \/ \E c \in Controllers : RestartCheck(c)

(***************************************************************************)
(* The thumbnail file of one video: generate_video_thumbnail and           *)
(* ensure_thumbnail_exists (media/thumbnails.py), serve_thumbnail          *)
(* (routes/media.py). Every system call on the file is one step.           *)
(***************************************************************************)
\* the threads of the web server answering requests for the same thumbnail
Requests == {"req1", "req2"}

\* a thread outside any call
Fresh ==
    [pc       |-> "idle",
     via      |-> "none",    \* who called: "serve", "direct", "worker"
     safe     |-> TRUE,      \* get_safe_path(media_root, filename) is a path
     linked   |-> FALSE,     \* holds the file open, and it is still at the path
     created  |-> FALSE,     \* its open() created the file
     given    |-> "none",    \* the file when ensure_thumbnail_exists was called
     seen     |-> "none",    \* the file as its last size check found it
     removed  |-> "none",    \* outcome of its os.remove
     rendered |-> FALSE,     \* its image.save ran to the end
     ret      |-> "none",    \* what the function called returned
     resp     |-> "none"]    \* what serve_thumbnail answered: "file",
                             \* "placeholder", "error"

\* a size check that takes an empty file for a thumbnail
AnySize(state) == state # "absent"

\* os.path.getsize(thumbnail_path) > 0
ValidSize(state) == state \in {"partial", "complete"}

\* the file after a thread wrote a part of the image: its bytes reach the
\* file unless the file was unlinked since the thread opened it
Written(t) ==
    IF ~req[t].linked THEN thumb
    ELSE IF owner = t \/ thumb = "empty" THEN "partial" ELSE thumb

\* a last part that spoils what another thread has written to the file
ClosedOverwritten(t) ==
    IF ~req[t].linked THEN thumb
    ELSE IF owner = t THEN "complete" ELSE "partial"

\* the file after a thread wrote the last part: a valid image if no other
\* thread truncated the file since this one opened it; a thread that does
\* not own the file writes the bytes the owner writes, at the same place
Closed(t) ==
    IF ~req[t].linked THEN thumb
    ELSE IF owner = t THEN "complete"
    ELSE IF thumb = "empty" THEN "partial" ELSE thumb

\* os.remove(thumbnail_path): whoever holds the file open keeps writing to
\* an inode without a name
Unlinked(r) == [u \in Requests |-> [r[u] EXCEPT !.linked = FALSE]]

InitThumb ==
    /\ source = TRUE
    /\ thumb = "absent"
    /\ owner = "none"
    /\ req = [t \in Requests |-> Fresh]

\* the end of ensure_thumbnail_exists: back in serve_thumbnail or at the caller
EnsureReturns(r, value) ==
    [r EXCEPT !.ret = value,
              !.pc = IF r.via = "serve" THEN "sv_result" ELSE "idle"]

\* the end of generate_video_thumbnail: line 168 of ensure_thumbnail_exists
\* turns its result into the path or the placeholder (for a thread of the
\* pool "path" stands for True and "placeholder" for False)
GenerateReturns(r, success) ==
    EnsureReturns(r, IF success THEN "path" ELSE "placeholder")

\* an abort() that reaches Flask: the request is answered with the error page
Escapes(r) == [r EXCEPT !.resp = "error", !.pc = "idle"]

\* lines 89-91: whatever is raised inside the try, the HTTPException of
\* abort() included, is caught and answered with placeholder_url, which is
\* configured (constants.py, line 98: the default is a URL)
Caught(r) == [r EXCEPT !.resp = "placeholder", !.pc = "idle"]

\* serve_thumbnail up to line 46: abort(400) and abort(403) are raised inside
\* the try and answered by line 91 with the placeholder
ServeCall(t) ==
    /\ req[t].pc = "idle"
    /\ \E ext_ok \in BOOLEAN, safe \in BOOLEAN :
          req' = [req EXCEPT ![t] =
                     IF ext_ok /\ safe
                     THEN [Fresh EXCEPT !.pc = "sv_exists", !.via = "serve"]
                     ELSE Caught([Fresh EXCEPT !.safe = safe])]
    /\ UNCHANGED <<source, thumb, owner, offThumb>>

\* line 59: os.path.exists(thumbnail_path)
ServeExists(t) ==
    /\ req[t].pc = "sv_exists"
    /\ req' = [req EXCEPT ![t].pc = IF thumb # "absent" THEN "sv_size"
                                                         ELSE "sv_source"]
    /\ UNCHANGED <<source, thumb, owner, offThumb>>

\* line 59: os.path.getsize(thumbnail_path) > 0, then send_file (line 61);
\* a file that has vanished raises, answered by line 91
ServeSize(t) ==
    /\ req[t].pc = "sv_size"
    /\ req' = [req EXCEPT ![t] =
                  IF thumb = "absent"
                  THEN Caught(@)
                  ELSE IF ValidSize(thumb)
                  THEN [@ EXCEPT !.seen = thumb, !.resp = "file", !.pc = "idle"]
                  ELSE [@ EXCEPT !.seen = thumb, !.pc = "sv_source"]]
    /\ UNCHANGED <<source, thumb, owner, offThumb>>

\* lines 67-77: abort(404) for a missing video, else ensure_thumbnail_exists
ServeSource(t) ==
    /\ req[t].pc = "sv_source"
    /\ req' = [req EXCEPT ![t] =
                  IF ~source
                  THEN Caught(@)
                  ELSE [@ EXCEPT !.pc = "e_safe", !.given = thumb,
                                 !.seen = "none"]]
    /\ UNCHANGED <<source, thumb, owner, offThumb>>

\* lines 80-91: send the generated file if it exists with size > 0, else
\* abort(404), answered by line 91
ServeResult(t) ==
    /\ req[t].pc = "sv_result"
    /\ req' = [req EXCEPT ![t] =
                  IF @.ret = "path" /\ ValidSize(thumb)
                  THEN [@ EXCEPT !.resp = "file", !.pc = "idle"]
                  ELSE Caught(@)]
    /\ UNCHANGED <<source, thumb, owner, offThumb>>

\* a call of ensure_thumbnail_exists(media_root, thumbnail_dir, filename,
\* placeholder_url)
EnsureCall(t) ==
    /\ req[t].pc = "idle"
    /\ \E safe \in BOOLEAN :
          req' = [req EXCEPT ![t] =
                     [Fresh EXCEPT !.pc = "e_safe", !.via = "direct",
                                   !.safe = safe, !.given = thumb]]
    /\ UNCHANGED <<source, thumb, owner, offThumb>>

\* lines 127-136: the placeholder for an unsafe path or a missing video
EnsureSafe(t) ==
    /\ req[t].pc = "e_safe"
    /\ req' = [req EXCEPT ![t] =
                  IF ~@.safe \/ ~source
                  THEN EnsureReturns(@, "placeholder")
                  ELSE [@ EXCEPT !.pc = "e_exists"]]
    /\ UNCHANGED <<source, thumb, owner, offThumb>>

\* line 153: os.path.exists(thumbnail_path)
EnsureExists(t) ==
    /\ req[t].pc = "e_exists"
    /\ req' = [req EXCEPT ![t].pc = IF thumb # "absent" THEN "e_size"
                                                         ELSE "g_start"]
    /\ UNCHANGED <<source, thumb, owner, offThumb>>

\* lines 155-160: os.path.getsize(thumbnail_path) > 0 returns the path; a
\* file that has vanished raises, answered by line 177 with the placeholder
EnsureSize(t) ==
    /\ req[t].pc = "e_size"
    /\ req' = [req EXCEPT ![t] =
                  IF thumb = "absent"
                  THEN EnsureReturns(@, "placeholder")
                  ELSE IF ValidSize(thumb)
                  THEN EnsureReturns([@ EXCEPT !.seen = thumb], "path")
                  ELSE [@ EXCEPT !.seen = thumb, !.pc = "e_remove"]]
    /\ UNCHANGED <<source, thumb, owner, offThumb>>

\* lines 161-164: os.remove(thumbnail_path), its failure logged and ignored
EnsureRemove(t) ==
    /\ req[t].pc = "e_remove"
    /\ IF thumb = "absent"
       THEN /\ req' = [req EXCEPT ![t].removed = "gone", ![t].pc = "g_start"]
            /\ UNCHANGED <<thumb, owner>>
       ELSE \E ok \in BOOLEAN :
               IF ok
               THEN /\ thumb' = "absent"
                    /\ owner' = "none"
                    /\ req' = [Unlinked(req) EXCEPT ![t].removed = "ok",
                                                    ![t].pc = "g_start"]
               ELSE /\ req' = [req EXCEPT ![t].removed = "failed",
                                          ![t].pc = "g_start"]
                    /\ UNCHANGED <<thumb, owner>>
    /\ UNCHANGED <<source, offThumb>>

\* thumbnail_worker.py, line 74: a thread of the pool renders a job for the
\* same video and the same thumbnail path, no check of the file before it
RenderJob(t) ==
    /\ req[t].pc = "idle"
    /\ req' = [req EXCEPT ![t] = [Fresh EXCEPT !.pc = "g_start",
                                               !.via = "worker"]]
    /\ UNCHANGED <<source, thumb, owner, offThumb>>

\* generate_video_thumbnail, lines 47-49: False for a missing video
GenStart(t) ==
    /\ req[t].pc = "g_start"
    /\ req' = [req EXCEPT ![t] = IF ~source THEN GenerateReturns(@, FALSE)
                                            ELSE [@ EXCEPT !.pc = "g_decode"]]
    /\ UNCHANGED <<source, thumb, owner, offThumb>>

\* lines 58-81: open the clip, check its duration, decode the frame, close
\* the clip, scale the image, make the directory; any failure returns False
GenDecode(t) ==
    /\ req[t].pc = "g_decode"
    /\ \E ok \in BOOLEAN :
          req' = [req EXCEPT ![t] = IF ok THEN [@ EXCEPT !.pc = "g_open"]
                                          ELSE GenerateReturns(@, FALSE)]
    /\ UNCHANGED <<source, thumb, owner, offThumb>>

\* line 84, image.save: open(thumbnail_path, "w+b") creates the file or
\* truncates it
GenSaveOpen(t) ==
    /\ req[t].pc = "g_open"
    /\ \E ok \in BOOLEAN :
          IF ok
          THEN /\ thumb' = "empty"
               /\ owner' = t
               /\ req' = [req EXCEPT ![t].pc = "g_write",
                                     ![t].linked = TRUE,
                                     ![t].created = (thumb = "absent")]
          ELSE /\ req' = [req EXCEPT ![t] = GenerateReturns(@, FALSE)]
               /\ UNCHANGED <<thumb, owner>>
    /\ UNCHANGED <<source, offThumb>>

\* line 84, a write of image.save fails (OSError, MemoryError): save closes
\* the file, removes it or not (a file it created, depending on the Pillow
\* version), and raises; lines 89-100 return False and touch no file
SaveFails(t, cleanup) ==
    IF cleanup /\ req[t].created /\ thumb # "absent"
    THEN /\ thumb' = "absent"
         /\ owner' = "none"
         /\ req' = [Unlinked(req) EXCEPT ![t] =
                       GenerateReturns([@ EXCEPT !.linked = FALSE], FALSE)]
    ELSE /\ req' = [req EXCEPT ![t] =
                       GenerateReturns([@ EXCEPT !.linked = FALSE], FALSE)]
         /\ UNCHANGED <<thumb, owner>>

\* line 84, image.save: the encoder writes the image part by part
GenSaveWrite(t) ==
    /\ req[t].pc = "g_write"
    /\ \E ok \in BOOLEAN, cleanup \in BOOLEAN :
          IF ok
          THEN /\ thumb' = Written(t)
               /\ req' = [req EXCEPT ![t].pc = "g_close"]
               /\ owner' = owner
          ELSE SaveFails(t, cleanup)
    /\ UNCHANGED <<source, offThumb>>

\* line 84, image.save: the last part is written and the file closed;
\* line 87 returns True
GenSaveClose(t) ==
    /\ req[t].pc = "g_close"
    /\ \E ok \in BOOLEAN, cleanup \in BOOLEAN :
          IF ok
          THEN /\ thumb' = Closed(t)
               /\ req' = [req EXCEPT ![t] =
                             GenerateReturns([@ EXCEPT !.linked = FALSE,
                                                       !.rendered = TRUE], TRUE)]
               /\ owner' = owner
          ELSE SaveFails(t, cleanup)
    /\ UNCHANGED <<source, offThumb>>

\* the user deletes the video, or puts it back
SourceChange ==
    /\ source' = ~source
    /\ UNCHANGED <<thumb, owner, req, offThumb>>

\* one step of a request thread
RequestStep(t) ==
    \/ ServeCall(t)
    \/ ServeExists(t)
    \/ ServeSize(t)
    \/ ServeSource(t)
    \/ ServeResult(t)
    \/ EnsureCall(t)
    \/ EnsureSafe(t)
    \/ EnsureExists(t)
    \/ EnsureSize(t)
    \/ EnsureRemove(t)

\* one step of a thread inside generate_video_thumbnail
RenderStep(t) ==
    \/ GenStart(t)
    \/ GenDecode(t)
    \/ GenSaveOpen(t)
    \/ GenSaveWrite(t)
    \/ GenSaveClose(t)

\* concurrent requests and jobs for the same thumbnail
NextThumb ==
    \/ \E t \in Requests : RequestStep(t)
    \/ \E t \in Requests : RenderJob(t)
    \/ \E t \in Requests : RenderStep(t)
    \/ SourceChange

(***************************************************************************)
(* Thumbnail filenames: the same lines in ensure_thumbnail_exists,         *)
(* serve_thumbnail and preload_worker. A string is a sequence of           *)
(* characters; Run stands for a run of LongName ordinary characters, so    *)
(* that names on both sides of the length test are short sequences.        *)
(***************************************************************************)
Run == "a..a"
Chars == {"a", "_", ".", "/", "\\", Run}
Paths == UNION {[1 .. n -> Chars] : n \in 1 .. MaxPathLen}

\* len(s)
RECURSIVE len(_)
len(s) ==
    IF s = <<>> THEN 0
    ELSE (IF Head(s) = Run THEN LongName ELSE 1) + len(Tail(s))

\* s.replace(old, new), for single characters
replace(s, old, new) ==
    [i \in 1 .. Len(s) |-> IF s[i] = old THEN new ELSE s[i]]

\* s.rfind(c), counting from 1, and 0 when c is not in s
rfind(s, c) ==
    IF \E i \in 1 .. Len(s) : s[i] = c
    THEN CHOOSE i \in 1 .. Len(s) :
            s[i] = c /\ \A j \in i + 1 .. Len(s) : s[j] # c
    ELSE 0

\* os.path.splitext(p): the extension starts at the last dot of the last
\* component, unless only dots come before it in that component
splitext(p) ==
    LET sepIndex == rfind(p, "/")
        dotIndex == rfind(p, ".")
    IN  IF /\ dotIndex > sepIndex
           /\ \E i \in sepIndex + 1 .. dotIndex - 1 : p[i] # "."
        THEN <<SubSeq(p, 1, dotIndex - 1), SubSeq(p, dotIndex, Len(p))>>
        ELSE <<p, <<>>>>

\* hashlib.md5(s.encode()).hexdigest(): a digest is told by what was hashed
md5(s) == [hashed |-> TRUE, of |-> s]
NoHash == [hashed |-> FALSE, of |-> <<>>]

\* a filename: a digest, or none, and the characters after it
NoName == [head |-> NoHash, tail |-> <<>>]

\* thumbnails.py, ensure_thumbnail_exists
ensure_thumbnail_name(filename) ==
    LET safe_filename == replace(replace(filename, "\\", "_"), "/", "_")
    IN  IF len(safe_filename) > LongName
        THEN [head |-> md5(safe_filename),
              tail |-> splitext(safe_filename)[2] \o <<".png">>]
        ELSE [head |-> NoHash, tail |-> safe_filename \o <<".png">>]

\* routes/media.py, serve_thumbnail
serve_thumbnail_name(filename) ==
    LET safe_filename == replace(replace(filename, "\\", "_"), "/", "_")
    IN  IF len(safe_filename) > LongName
        THEN [head |-> md5(safe_filename),
              tail |-> splitext(safe_filename)[2] \o <<".png">>]
        ELSE [head |-> NoHash, tail |-> safe_filename \o <<".png">>]

\* a naming that leaves the backslashes of a Windows path in place
NameKeepingBackslash(video_path) ==
    LET safe_filename == replace(video_path, "/", "_")
    IN  IF len(safe_filename) > LongName
        THEN [head |-> md5(safe_filename),
              tail |-> splitext(safe_filename)[2] \o <<".png">>]
        ELSE [head |-> NoHash, tail |-> safe_filename \o <<".png">>]

\* workers/preload.py, preload_worker
preload_thumbnail_name(video_path) ==
    LET safe_filename == replace(replace(video_path, "\\", "_"), "/", "_")
    IN  IF len(safe_filename) > LongName
        THEN [head |-> md5(safe_filename),
              tail |-> splitext(safe_filename)[2] \o <<".png">>]
        ELSE [head |-> NoHash, tail |-> safe_filename \o <<".png">>]

Components == {"ensure", "serve", "preload"}

InitName ==
    /\ path \in Paths
    /\ names = [c \in Components |-> NoName]

\* the naming, when no path is under study
IdleName ==
    /\ path = <<>>
    /\ names = [c \in Components |-> NoName]

EnsureName ==
    /\ names["ensure"] = NoName
    /\ names' = [names EXCEPT !["ensure"] = ensure_thumbnail_name(path)]
    /\ UNCHANGED <<path, offName>>

ServeName ==
    /\ names["serve"] = NoName
    /\ names' = [names EXCEPT !["serve"] = serve_thumbnail_name(path)]
    /\ UNCHANGED <<path, offName>>

PreloadName ==
    /\ names["preload"] = NoName
    /\ names' = [names EXCEPT !["preload"] = preload_thumbnail_name(path)]
    /\ UNCHANGED <<path, offName>>

NextName ==
    \/ EnsureName
    \/ ServeName
    \/ PreloadName

(***************************************************************************)
(* get_safe_path and is_safe_path (utils/security.py), with the functions  *)
(* of posixpath they call. A path is a sequence of characters.             *)
(***************************************************************************)
SafeChars == {"a", ".", "/"}
RelPaths == UNION {[1 .. n -> SafeChars] : n \in 0 .. MaxRelLen}

\* the base directories: the root, a directory, a path relative to getcwd
Bases == {<<"/">>, <<"/", "a">>, <<"a">>}

\* os.getcwd()
getcwd == <<"/", "a">>

\* the value None of get_safe_path, and safe_path before the call
NoPath == <<"None">>
NotCalled == <<"not called">>

sep == <<"/">>
curdir == <<".">>
pardir == <<".", ".">>

\* s.startswith(prefix)
startswith(s, prefix) ==
    Len(s) >= Len(prefix) /\ SubSeq(s, 1, Len(prefix)) = prefix

\* s.split("/"): the components between the slashes, empty ones included
RECURSIVE split(_)
split(s) ==
    IF s = <<>> THEN << <<>> >>
    ELSE LET rest == split(Tail(s))
         IN  IF Head(s) = "/" THEN << <<>> >> \o rest
             ELSE << <<Head(s)>> \o Head(rest) >> \o Tail(rest)

\* "/".join(comps)
RECURSIVE sep_join(_)
sep_join(comps) ==
    IF comps = <<>> THEN <<>>
    ELSE IF Len(comps) = 1 THEN comps[1]
    ELSE comps[1] \o sep \o sep_join(Tail(comps))

\* posixpath.isabs
isabs(s) == startswith(s, sep)

\* posixpath.join(a, b)
join(a, b) ==
    IF isabs(b) THEN b
    ELSE IF a = <<>> \/ a[Len(a)] = "/" THEN a \o b
    ELSE a \o sep \o b

\* the loop of posixpath.normpath over the components
RECURSIVE new_comps(_, _, _)
new_comps(comps, done, initial_slashes) ==
    IF comps = <<>> THEN done
    ELSE LET comp == Head(comps)
             next == IF comp \in {<<>>, curdir} THEN done
                     ELSE IF \/ comp # pardir
                             \/ initial_slashes = 0 /\ done = <<>>
                             \/ done # <<>> /\ done[Len(done)] = pardir
                     THEN Append(done, comp)
                     ELSE IF done # <<>> THEN SubSeq(done, 1, Len(done) - 1)
                     ELSE done
         IN  new_comps(Tail(comps), next, initial_slashes)

\* posixpath.normpath: two leading slashes are kept, three or more are one
normpath(s) ==
    IF s = <<>> THEN curdir
    ELSE LET initial_slashes ==
                 IF ~startswith(s, sep) THEN 0
                 ELSE IF /\ startswith(s, <<"/", "/">>)
                         /\ ~startswith(s, <<"/", "/", "/">>) THEN 2
                 ELSE 1
             joined == [i \in 1 .. initial_slashes |-> "/"]
                       \o sep_join(new_comps(split(s), <<>>, initial_slashes))
         IN  IF joined = <<>> THEN curdir ELSE joined

\* a path taken as it is written
Unresolved(s) == s

\* posixpath.abspath
abspath(s) == normpath(IF isabs(s) THEN s ELSE join(getcwd, s))

\* the longest common prefix of two lists of components
RECURSIVE common(_, _)
common(s1, s2) ==
    IF s1 = <<>> \/ s2 = <<>> \/ Head(s1) # Head(s2) THEN <<>>
    ELSE <<Head(s1)>> \o common(Tail(s1), Tail(s2))

\* posixpath.commonpath([p, q]) of two absolute paths
commonpath(p, q) ==
    LET split_paths(s) ==
            SelectSeq(split(s), LAMBDA c : c \notin {<<>>, curdir})
    IN  sep \o sep_join(common(split_paths(p), split_paths(q)))

\* security.py, lines 13-48, follow_symlinks False
is_safe_path(base, user_path) ==
    commonpath(abspath(base), abspath(user_path)) = abspath(base)

\* security.py, lines 51-79
get_safe_path(base, relative) ==
    IF relative = <<>> THEN abspath(base)
    ELSE LET full_path == join(base, relative)
         IN  IF is_safe_path(base, full_path) THEN full_path ELSE NoPath

InitSafe ==
    /\ base_dir \in Bases
    /\ relative_path \in RelPaths
    /\ safe_path = NotCalled

\* get_safe_path, when no path is under study
IdleSafe ==
    /\ base_dir = <<"/">>
    /\ relative_path = <<>>
    /\ safe_path = NotCalled

\* a call of get_safe_path(base_dir, relative_path)
GetSafePath ==
    /\ safe_path = NotCalled
    /\ safe_path' = get_safe_path(base_dir, relative_path)
    /\ UNCHANGED <<base_dir, relative_path, offSafe>>

NextSafe == GetSafePath

(***************************************************************************)
(* The records of a scan and the pages of a gallery: scan_directory and    *)
(* get_sorted_files (media/scanner.py), handle_gallery (routes/gallery.py),*)
(* paginate_items (utils/pagination.py), add_dimensions_to_items           *)
(* (media/dimension_helper.py). Lists and dicts are objects: a list is a   *)
(* position in a sequence of lists and holds positions of dicts, so that   *)
(* two names of one object see each other's changes.                       *)
(***************************************************************************)
\* config.media_dir, and the directories a gallery is asked for
MediaRoot == "/media"
Folders == {"/media", "/media/sub"}

\* what validate_media_extension and the video suffixes tell apart
Kinds == {"image", "video", "other"}

\* a file that os.walk lists: all right, a broken link, or not readable; the
\* scan looks at the condition of a file only after it took its extension
Conditions == {"ok", "broken", "unreadable"}
Entries ==
    {e \in [kind : Kinds, condition : Conditions] :
        e.kind = "other" => e.condition = "ok"}
Trees == UNION {[1 .. n -> Entries] : n \in 0 .. MaxEntries}

\* scanner.py, lines 171-175: the sizes written without reading the file
DefaultVideo == <<1920, 1080>>
DefaultImage == <<1600, 1200>>

\* dimensions.py, line 162: a video without a thumbnail
SmallVideo == <<300, 169>>

\* what get_image_dimensions can find in an image, or line 177 without it
ImageSizes == {<<1600, 1200>>, <<1080, 1920>>}

\* get_media_dimensions(file_path) for a file of a kind
get_media_dimensions(kind, found) ==
    IF kind = "video" THEN SmallVideo ELSE found

\* the URL for an image, whatever the file is
AlwaysMedia(kind, rel_path) == [prefix |-> "/media/", path |-> rel_path]

\* scanner.py, lines 178-182
thumbnail(kind, rel_path) ==
    IF kind = "video" THEN [prefix |-> "/thumbnail/", path |-> rel_path]
    ELSE [prefix |-> "/media/", path |-> rel_path]

\* scanner.py, lines 156-184: media_info of the i-th file
media_dict(i, kind, include_dimensions, found) ==
    LET rel_path == [folder |-> "", file |-> i, kind |-> kind]
        size == IF include_dimensions THEN get_media_dimensions(kind, found)
                ELSE IF kind = "video" THEN DefaultVideo ELSE DefaultImage
    IN  [path |-> rel_path, width |-> size[1], height |-> size[2],
         thumbnail |-> thumbnail(kind, rel_path)]

\* what os.walk yields: nothing for a directory it cannot read, as it is
\* called without onerror
walked == IF walk_ok THEN listing ELSE <<>>

\* scanner.py, lines 132-193: the loop over the files from the i-th on
RECURSIVE media_from(_, _, _)
media_from(i, include_dimensions, found) ==
    IF i > Len(walked) THEN <<>>
    ELSE (IF walked[i].kind = "other" THEN <<>>
          ELSE IF walked[i].condition = "broken" THEN <<>>
          ELSE IF walked[i].condition = "unreadable" THEN <<>>
          ELSE <<media_dict(i, walked[i].kind, include_dimensions, found)>>)
         \o media_from(i + 1, include_dimensions, found)

\* the objects at hand during a call: dicts, lists, the cache, and the list
\* that the local name media refers to
Objects ==
    [dicts |-> dicts, lists |-> lists, cached |-> cached, media |-> 0]

\* scanner.py, lines 114-213: scan_directory
scan_directory(h, use_cache, include_dimensions, found) ==
    IF use_cache /\ h.cached[include_dimensions] # 0
    THEN [h EXCEPT !.media = h.cached[include_dimensions]]
    ELSE LET media == media_from(1, include_dimensions, found)
             made == Len(h.lists) + 1
         IN  [dicts |-> h.dicts \o media,
              lists |-> Append(h.lists,
                               [i \in 1 .. Len(media) |-> Len(h.dicts) + i]),
              cached |-> IF use_cache /\ media # <<>>
                         THEN [h.cached EXCEPT ![include_dimensions] = made]
                         ELSE h.cached,
              media |-> made]

\* the name media goes on naming the same list
same_list(h) == h

\* media = media.copy()
list_copy(h) ==
    [h EXCEPT !.lists = Append(@, h.lists[h.media]),
              !.media = Len(h.lists) + 1]

\* the orders of n items
Orders(n) ==
    {o \in [1 .. n -> 1 .. n] : \A i, j \in 1 .. n : o[i] = o[j] => i = j}

\* the orders a sort can give: the default leaves the list as it is
OrdersFor(sort_by, n) ==
    IF sort_by = "default" THEN {[i \in 1 .. n |-> i]} ELSE Orders(n)

\* random.shuffle(media): the list itself is put in another order
shuffle(h, o) ==
    [h EXCEPT !.lists[h.media] = [i \in 1 .. Len(@) |-> @[o[i]]]]

\* media = sorted(media, ...): a new list, in the order of the modification
\* times
sorted(h, o) ==
    [h EXCEPT !.lists = Append(@, [i \in 1 .. Len(h.lists[h.media]) |->
                                      h.lists[h.media][o[i]]]),
              !.media = Len(h.lists) + 1]

\* scanner.py, lines 263-281: copies of the dicts with the folder in front
adjusted(h) ==
    LET media == h.lists[h.media]
        adjusted_item(item) ==
            [item EXCEPT !.path.folder = "sub", !.thumbnail.path.folder = "sub"]
    IN  [h EXCEPT !.dicts = @ \o [i \in 1 .. Len(media) |->
                                     adjusted_item(h.dicts[media[i]])],
                  !.lists = Append(@, [i \in 1 .. Len(media) |->
                                          Len(h.dicts) + i]),
                  !.media = Len(h.lists) + 1]

\* scanner.py, lines 239-288: get_sorted_files
get_sorted_files(h, folder, sort_by, include_dimensions, found, o) ==
    LET scanned == scan_directory(h, TRUE, include_dimensions, found)
        ordered == IF sort_by = "random" THEN shuffle(list_copy(scanned), o)
                   ELSE IF sort_by = "new" THEN sorted(scanned, o)
                   ELSE scanned
    IN  IF folder # MediaRoot THEN adjusted(ordered) ELSE ordered

\* pagination.py, lines 25-28: items[start:end], with one item on a page
paginate_items(h, page) ==
    LET items == h.lists[h.media]
        slice == IF page <= Len(items) THEN <<items[page]>> ELSE <<>>
    IN  [h EXCEPT !.lists = Append(@, slice), !.media = Len(h.lists) + 1]

\* dimension_helper.py, lines 23-42: the dicts of the list are written to
add_dimensions_to_items(h, found) ==
    LET items == h.lists[h.media]
        size(item) == get_media_dimensions(item.path.kind, found)
    IN  [h EXCEPT !.dicts =
            [i \in 1 .. Len(h.dicts) |->
                IF \E j \in 1 .. Len(items) : items[j] = i
                THEN [h.dicts[i] EXCEPT !.width = size(h.dicts[i])[1],
                                        !.height = size(h.dicts[i])[2]]
                ELSE h.dicts[i]]]

\* the dicts of the list that media names
Returned(h) ==
    [i \in 1 .. Len(h.lists[h.media]) |-> h.dicts[h.lists[h.media][i]]]

\* the objects that outlive a call: those the cache refers to, which are the
\* first ones made
Kept(h, seen) ==
    /\ cached' = seen.cached
    /\ dicts' = SubSeq(h.dicts, 1, IF seen.cached # cached
                                   THEN Len(seen.dicts) ELSE Len(dicts))
    /\ lists' = SubSeq(h.lists, 1, IF seen.cached # cached
                                   THEN Len(seen.lists) ELSE Len(lists))

NoCall == [fn |-> "none", sort_by |-> "default", use_cache |-> FALSE,
           include_dimensions |-> FALSE, page |-> 0]

InitGal ==
    /\ folder_path \in Folders
    /\ walk_ok \in BOOLEAN
    /\ listing \in Trees
    /\ dicts = <<>>
    /\ lists = <<>>
    /\ cached = [include_dimensions \in BOOLEAN |-> 0]
    /\ call = NoCall
    /\ result = [raised |-> FALSE, media |-> <<>>]

\* the gallery, when none is under study
IdleGallery ==
    /\ folder_path = MediaRoot
    /\ walk_ok = TRUE
    /\ listing = <<>>
    /\ dicts = <<>>
    /\ lists = <<>>
    /\ cached = [include_dimensions \in BOOLEAN |-> 0]
    /\ call = NoCall
    /\ result = [raised |-> FALSE, media |-> <<>>]

\* a call of scan_directory(folder_path, use_cache, include_dimensions)
ScanDirectory(use_cache, include_dimensions) ==
    \E found \in ImageSizes :
        \E h \in {scan_directory(Objects, use_cache, include_dimensions,
                                 found)} :
            /\ Kept(h, h)
            /\ call' = [NoCall EXCEPT !.fn = "scan_directory",
                                      !.use_cache = use_cache,
                                      !.include_dimensions = include_dimensions]
            /\ result' = [raised |-> FALSE, media |-> Returned(h)]
            /\ UNCHANGED <<folder_path, walk_ok, listing, offGallery>>

\* gallery.py, lines 18-80: handle_gallery for the folder, up to the page it
\* renders
HandleGallery(sort_by, page) ==
    \E found \in ImageSizes :
        \E seen \in {scan_directory(Objects, TRUE, FALSE, found)} :
            \E o \in OrdersFor(sort_by, Len(seen.lists[seen.media])) :
                \E media \in {get_sorted_files(Objects, folder_path, sort_by,
                                               FALSE, found, o)} :
                    \E paginated_media \in {paginate_items(media, page)} :
                        \E h \in {add_dimensions_to_items(paginated_media,
                                                          found)} :
                            /\ Kept(h, seen)
                            /\ call' = [NoCall EXCEPT !.fn = "handle_gallery",
                                                      !.sort_by = sort_by,
                                                      !.use_cache = TRUE,
                                                      !.page = page]
                            /\ result' = [raised |-> FALSE,
                                          media |-> Returned(h)]
                            /\ UNCHANGED <<folder_path, walk_ok, listing,
                                           offGallery>>

NextGallery ==
    \/ \E use_cache \in BOOLEAN, include_dimensions \in BOOLEAN :
          ScanDirectory(use_cache, include_dimensions)
    \/ \E sort_by \in {"default", "random", "new"}, page \in 1 .. MaxPage :
          HandleGallery(sort_by, page)

(***************************************************************************)
(* SimpleCache (utils/cache.py): every method runs under self._lock        *)
(***************************************************************************)
\* the directories scanned, and what a scan can find in one
Dirs == {"media"}
Listings == {<<>>, <<"a.jpg">>, <<"a.jpg", "b.mp4">>}

\* cache_key_for_directory(directory): "dir:" and the digest of the name
cache_key_for_directory(directory) == <<"dir:", directory>>

\* a scan that keeps one cache entry per directory
KeyWithoutFlag(directory, include_dimensions) ==
    cache_key_for_directory(directory) \o <<"_with_dims">>

\* scan_directory, lines 117-118 and 208-209
scan_key(directory, include_dimensions) ==
    cache_key_for_directory(directory)
        \o <<IF include_dimensions THEN "_with_dims" ELSE "_no_dims">>

Keys == {scan_key(d, dims) : d \in Dirs, dims \in BOOLEAN}

\* Python's None, and a value, as get() returns them
None == [hit |-> FALSE, value |-> <<>>]
Some(value) == [hit |-> TRUE, value |-> value]

\* a cache that still serves an entry at the very end of its life
AliveAtTtl(age) == age <= ttl

\* a cache that drops an entry a second before the end of its life
ExpiresEarly(age) == age + 1 < ttl

\* get, line 58: age < self._ttl
Alive(age) == age < ttl

\* cleanup_expired, line 129: current_time - timestamp >= self._ttl
Expired(age) == age >= ttl

\* the dict without some keys, and with one more entry
Without(c, ks) == [k \in DOMAIN c \ ks |-> c[k]]
With(c, key, value) ==
    [k \in DOMAIN c \cup {key} |->
        IF k = key THEN [value |-> value, timestamp |-> now] ELSE c[k]]

\* what get(key) returns, and the dict it leaves
get_value(key) ==
    IF key \in DOMAIN cache /\ Alive(now - cache[key].timestamp)
    THEN Some(cache[key].value)
    ELSE None
get_cache(key) ==
    IF key \in DOMAIN cache /\ ~Alive(now - cache[key].timestamp)
    THEN Without(cache, {key})
    ELSE cache

NeverSet == [set |-> FALSE, value |-> <<>>, at |-> 0]

\* a thread outside scan_directory
NoScan == [pc |-> "idle", dims |-> FALSE, use_cache |-> FALSE, media |-> <<>>]
Scanners == {"scan1", "scan2"}

InitCache ==
    /\ cache = <<>>
    /\ stale = [k \in Keys |-> {}]
    /\ ttl \in 1 .. MaxTtl
    /\ now = 0
    /\ stored = [k \in Keys |-> NeverSet]
    /\ last = [op |-> "none", key |-> <<>>, ret |-> None]
    /\ fs \in Listings
    /\ scan = [t \in Scanners |-> NoScan]

\* the cache, when it is not under study
IdleCache ==
    /\ cache = <<>>
    /\ stale = [k \in Keys |-> {}]
    /\ ttl = 1
    /\ now = 0
    /\ stored = [k \in Keys |-> NeverSet]
    /\ last = [op |-> "none", key |-> <<>>, ret |-> None]
    /\ fs = <<>>
    /\ scan = [t \in Scanners |-> NoScan]

Get(key) ==
    /\ cache' = get_cache(key)
    /\ last' = [op |-> "get", key |-> key, ret |-> get_value(key)]
    /\ UNCHANGED <<ttl, now, stored, fs, scan, stale, offCache>>

Set(key, value) ==
    /\ cache' = With(cache, key, value)
    /\ stored' = [stored EXCEPT ![key] =
                     [set |-> TRUE, value |-> value, at |-> now]]
    /\ last' = [op |-> "set", key |-> key, ret |-> None]
    /\ UNCHANGED <<ttl, now, fs, scan, stale, offCache>>

Invalidate(key) ==
    /\ cache' = Without(cache, {key})
    /\ stored' = [stored EXCEPT ![key] = NeverSet]
    /\ last' = [op |-> "invalidate", key |-> key, ret |-> None]
    /\ UNCHANGED <<ttl, now, fs, scan, stale, offCache>>

Clear ==
    /\ cache' = <<>>
    /\ stored' = [k \in Keys |-> NeverSet]
    /\ last' = [op |-> "clear", key |-> <<>>, ret |-> None]
    /\ UNCHANGED <<ttl, now, fs, scan, stale, offCache>>

CleanupExpired ==
    /\ cache' = Without(cache, {k \in DOMAIN cache :
                                   Expired(now - cache[k].timestamp)})
    /\ last' = [op |-> "cleanup_expired", key |-> <<>>, ret |-> None]
    /\ UNCHANGED <<ttl, now, stored, fs, scan, stale, offCache>>

\* a second passes
Tick ==
    /\ now < MaxTime
    /\ now' = now + 1
    /\ last' = [op |-> "none", key |-> <<>>, ret |-> None]
    /\ UNCHANGED <<cache, ttl, stored, fs, scan, stale, offCache>>

NextCache ==
    \/ \E key \in Keys : Get(key)
    \/ \E key \in Keys, value \in Listings : Set(key, value)
    \/ \E key \in Keys : Invalidate(key)
    \/ Clear
    \/ CleanupExpired
    \/ Tick

(***************************************************************************)
(* scan_directory (media/scanner.py) on the directory cache                *)
(***************************************************************************)
\* lines 158-184: one media_info per file, its width and height measured by
\* get_media_dimensions or set to the defaults
Walk(files, include_dimensions) ==
    [i \in DOMAIN files |->
        <<files[i], IF include_dimensions THEN "measured" ELSE "default">>]

\* a scan that stores whatever it found
StoreAnyResult(use_cache, media) == use_cache

\* a scan that stores what it found whether or not the cache is to be used
StoreWithoutCache(use_cache, media) == media # <<>>

\* line 206: if use_cache and media
ShouldStore(use_cache, media) == use_cache /\ media # <<>>

ScanCall(t) ==
    /\ scan[t].pc = "idle"
    /\ \E use_cache \in BOOLEAN, include_dimensions \in BOOLEAN :
          scan' = [scan EXCEPT ![t] =
                      [pc |-> IF use_cache THEN "lookup" ELSE "walk",
                       dims |-> include_dimensions,
                       use_cache |-> use_cache, media |-> <<>>]]
    /\ UNCHANGED <<cache, ttl, now, stored, last, fs, stale, offCache>>

\* lines 115-122: directory_cache.get(cache_key), returned when not None
ScanLookup(t, directory) ==
    /\ scan[t].pc = "lookup"
    /\ LET cache_key == scan_key(directory, scan[t].dims)
           cached_result == get_value(cache_key)
       IN  /\ cache' = get_cache(cache_key)
           /\ scan' = [scan EXCEPT ![t] =
                          IF cached_result # None
                          THEN [@ EXCEPT !.pc = "done",
                                         !.media = cached_result.value]
                          ELSE [@ EXCEPT !.pc = "walk"]]
    /\ UNCHANGED <<ttl, now, stored, last, fs, stale, offCache>>

\* lines 124-203: os.walk collects the media files
ScanWalk(t) ==
    /\ scan[t].pc = "walk"
    /\ scan' = [scan EXCEPT ![t].pc = "store",
                            ![t].media = Walk(fs, scan[t].dims)]
    /\ UNCHANGED <<cache, ttl, now, stored, last, fs, stale, offCache>>

\* lines 205-213: the result is cached, and returned
ScanStore(t, directory) ==
    /\ scan[t].pc = "store"
    /\ cache' = IF ShouldStore(scan[t].use_cache, scan[t].media)
                THEN With(cache, scan_key(directory, scan[t].dims),
                          scan[t].media)
                ELSE cache
    /\ stale' = IF ShouldStore(scan[t].use_cache, scan[t].media)
                THEN [stale EXCEPT ![scan_key(directory, scan[t].dims)] = {}]
                ELSE stale
    /\ scan' = [scan EXCEPT ![t].pc = "done"]
    /\ UNCHANGED <<ttl, now, stored, last, fs, offCache>>

\* the caller has the list
ScanReturn(t) ==
    /\ scan[t].pc = "done"
    /\ scan' = [scan EXCEPT ![t] = NoScan]
    /\ UNCHANGED <<cache, ttl, now, stored, last, fs, stale, offCache>>

\* files are added to the directory, or deleted from it
FsChange ==
    /\ \E files \in Listings \ {fs} : fs' = files
    /\ UNCHANGED <<cache, ttl, now, stored, last, scan, stale, offCache>>

\* a second passes
ScanTick ==
    /\ now < MaxTime
    /\ now' = now + 1
    /\ UNCHANGED <<cache, ttl, stored, last, fs, scan, stale, offCache>>

NextScan ==
    \/ \E t \in Scanners : ScanCall(t)
    \/ \E t \in Scanners, directory \in Dirs : ScanLookup(t, directory)
    \/ \E t \in Scanners : ScanWalk(t)
    \/ \E t \in Scanners, directory \in Dirs : ScanStore(t, directory)
    \/ \E t \in Scanners : ScanReturn(t)
    \/ FsChange
    \/ ScanTick

(***************************************************************************)
(* preload_thumbnails.preload_worker                                       *)
(***************************************************************************)
Files == 1 .. MaxFiles

\* the dictionary scan_directory builds for a file: 'path', 'width',
\* 'height' and 'thumbnail' are set for every file it appends
media_info(f, kind) ==
    [path |-> f,
     width |-> IF kind = "video" THEN 1920 ELSE 1600,
     height |-> IF kind = "video" THEN 1080 ELSE 1200,
     thumbnail |-> IF kind = "video" THEN "/thumbnail/" ELSE "/media/"]

\* scan_directory(media_root, use_cache=False): one dictionary per media file
RECURSIVE Scanned(_, _)
Scanned(m, n) ==
    IF n = 0
    THEN <<>>
    ELSE IF m[n] = "none"
         THEN Scanned(m, n - 1)
         ELSE Append(Scanned(m, n - 1), media_info(n, m[n]))

\* "for path, thumb in media_files": the item is iterated and must yield
\* exactly two values; iterating a dictionary yields its keys
Unpacks(item, n) == Cardinality(DOMAIN item) = n

\* the comprehension's filter: path.lower().endswith(('.mp4', ...)), for an
\* item that unpacked, whose first value is its first key
RECURSIVE Videos(_, _)
Videos(items, m) ==
    IF items = <<>>
    THEN <<>>
    ELSE IF m[Head(items).path] = "video"
         THEN <<Head(items).path>> \o Videos(Tail(items), m)
         ELSE Videos(Tail(items), m)

InitPreload ==
    /\ media_root \in [Files -> {"none", "video", "image"}]
    /\ thumbs \in [Files -> {"absent", "empty", "valid"}]
    /\ ppc = "scan"
    /\ media_files = <<>>
    /\ video_files = <<>>
    /\ queued = {}
    /\ pend = "running"

\* no preload
IdlePreload ==
    /\ media_root = [f \in Files |-> "none"]
    /\ thumbs = [f \in Files |-> "absent"]
    /\ ppc = "scan"
    /\ media_files = <<>>
    /\ video_files = <<>>
    /\ queued = {}
    /\ pend = "running"

\* media_files = scan_directory(media_root, use_cache=False)
PreloadScan ==
    /\ ppc = "scan"
    /\ media_files' = Scanned(media_root, MaxFiles)
    /\ ppc' = "filter"
    /\ UNCHANGED <<media_root, thumbs, video_files, queued, pend>>
    /\ UNCHANGED offPreload

\* video_files = [(path, thumb) for path, thumb in media_files if ...]: the
\* first item that does not unpack raises ValueError, which the
\* "except Exception" around the whole of preload_worker logs
PreloadFilter ==
    /\ ppc = "filter"
    /\ IF \E i \in DOMAIN media_files : ~Unpacks(media_files[i], 2)
       THEN /\ ppc' = "done"
            /\ pend' = "error"
            /\ UNCHANGED video_files
       ELSE /\ video_files' = Videos(media_files, media_root)
            /\ ppc' = "check"
            /\ UNCHANGED pend
    /\ UNCHANGED <<media_root, thumbs, media_files, queued>>
    /\ UNCHANGED offPreload

\* if not video_files: return; the statements after it (get_thumbnail_worker,
\* the thumbnail checks, the batches of add_job) need a video_files that is
\* not empty
PreloadCheck ==
    /\ ppc = "check"
    /\ IF video_files = <<>>
       THEN /\ ppc' = "done"
            /\ pend' = "no_videos"
       ELSE /\ ppc' = "get_worker"
            /\ UNCHANGED pend
    /\ UNCHANGED <<media_root, thumbs, media_files, video_files, queued>>
    /\ UNCHANGED offPreload

NextPreload ==
    \/ PreloadScan
    \/ PreloadFilter
    \/ PreloadCheck

(***************************************************************************)
(* The start of the program: the import of media.scanner, then create_app  *)
(***************************************************************************)
\* setup_caches(directory_ttl=300), SimpleCache(ttl_seconds=300)
default_ttl == 300

\* setup_caches(directory_ttl): the objects after
\* _directory_cache = SimpleCache(ttl_seconds=directory_ttl), the new one last
setup_caches(directory_ttl) == Append(caches, directory_ttl)

\* get_directory_cache() on a global that is None calls setup_caches() and
\* returns the new object; otherwise it returns the global
caches_after_get ==
    IF global_cache = 0 THEN setup_caches(default_ttl) ELSE caches
get_directory_cache ==
    IF global_cache = 0 THEN Len(caches_after_get) ELSE global_cache

\* the program before its first import
InitBoot ==
    /\ boot = "import"
    /\ cache_ttl \in 1 .. MaxTtl
    /\ caches = <<>>
    /\ global_cache = 0
    /\ directory_cache = 0
    /\ cache = <<>>
    /\ stale = [k \in Keys |-> {}]
    /\ ttl = 0
    /\ now = 0
    /\ stored = [k \in Keys |-> NeverSet]
    /\ last = [op |-> "none", key |-> <<>>, ret |-> None]
    /\ fs \in Listings
    /\ scan = [t \in Scanners |-> NoScan]

\* the start of the program, when it is not under study
IdleBoot ==
    /\ boot = "serving"
    /\ cache_ttl = 1
    /\ caches = <<>>
    /\ global_cache = 0
    /\ directory_cache = 0

\* app.py imports routes, routes import media.scanner, whose line 16 runs
\* directory_cache = get_directory_cache(); from here on cache and ttl are
\* the _cache and _ttl of the object that name is bound to
ImportScanner ==
    /\ boot = "import"
    /\ caches' = caches_after_get
    /\ global_cache' = get_directory_cache
    /\ directory_cache' = get_directory_cache
    /\ ttl' = caches_after_get[get_directory_cache]
    /\ cache' = <<>>
    /\ boot' = "create_app"
    /\ UNCHANGED <<cache_ttl, now, stored, last, fs, scan, offBoot>>

\* create_app: if config.cache_enabled: setup_caches(directory_ttl=
\* config.cache_ttl, ...); the name in media.scanner is not assigned again
CreateApp ==
    /\ boot = "create_app"
    /\ \E cache_enabled \in BOOLEAN :
          IF cache_enabled
          THEN /\ caches' = setup_caches(cache_ttl)
               /\ global_cache' = Len(caches')
          ELSE UNCHANGED <<caches, global_cache>>
    /\ boot' = "serving"
    /\ UNCHANGED <<cache_ttl, directory_cache, cacheVars, offBoot>>

\* invalidate_directory_cache(directory):
\* _directory_cache.invalidate(cache_key_for_directory(directory)), on the
\* object bound to the global of utils.cache, under the key without the
\* "_with_dims" / "_no_dims" suffix. An object that is not the scanner's
\* holds no entry: nothing but scan_directory stores into a directory cache.
InvalidateDirectory(directory) ==
    /\ boot = "serving"
    /\ cache' = IF global_cache = directory_cache
                THEN Without(cache, {cache_key_for_directory(directory)})
                ELSE cache
    /\ stale' = [k \in Keys |->
                    IF /\ k \in DOMAIN cache'
                       /\ \E dims \in BOOLEAN : k = scan_key(directory, dims)
                    THEN stale[k] \cup {t \in Scanners : scan[t].pc = "idle"}
                    ELSE stale[k]]
    /\ UNCHANGED <<ttl, now, stored, last, fs, scan, bootVars>>
    /\ UNCHANGED <<poolVars, thumbVars, nameVars, preVars, safeVars, galVars,
                   clipVars, globVars>>

\* the program, from its first import to the scans of its requests
NextBoot ==
    \/ ImportScanner
    \/ CreateApp
    \/ boot = "serving" /\ \E t \in Scanners : ScanCall(t)
    \/ boot = "serving"
          /\ \E t \in Scanners, directory \in Dirs : ScanLookup(t, directory)
    \/ boot = "serving" /\ \E t \in Scanners : ScanWalk(t)
    \/ boot = "serving"
          /\ \E t \in Scanners, directory \in Dirs : ScanStore(t, directory)
    \/ boot = "serving" /\ \E t \in Scanners : ScanReturn(t)
    \/ boot = "serving" /\ FsChange
    \/ boot = "serving" /\ ScanTick

(***************************************************************************)
(* generate_video_thumbnail (media/thumbnails.py, lines 15-107), statement *)
(* by statement: the VideoFileClip it opens and where it closes it. The    *)
(* two threads of the pool render one video each.                          *)
(***************************************************************************)
\* what generate_video_thumbnail leaves alone
offClip == <<poolVars, thumbVars, nameVars, cacheVars, preVars, bootVars,
    histVars, safeVars, galVars, globVars>>

\* thumbnail_worker.py, line 134: the threads that call the function
Renderers == {"ThumbnailWorker-1", "ThumbnailWorker-2"}

\* line 43, clip = None: a call that has opened nothing yet
NoClip ==
    [pc     |-> "idle",
     clip   |-> "None",     \* the local variable: "None" or "clip", the
                            \* VideoFileClip of line 58
     opened |-> "none",     \* that VideoFileClip: "none" while it is not
                            \* built, then "open", then "closed"
     exit   |-> "none",     \* the statement that ended the try body
     ret    |-> "none"]     \* the value of the return statement

\* clip.close(): the reader of the clip is released; what close() raises
\* after that is the caller's to handle
close(r) == [r EXCEPT !.opened = "closed"]

\* a return statement inside the try body: the finally clause runs next
Return(r, value, at) ==
    [r EXCEPT !.ret = value, !.exit = at, !.pc = "finally"]

\* lines 89-100: each except clause logs and returns False
Raised(r, at) == Return(r, "False", at)

\* a function that returns without a finally clause
NoFinally(r) == r

\* lines 101-107: finally: if clip is not None: try: clip.close() except
\* Exception: logger.warning(...)
Finally(r) == IF r.clip # "None" THEN close(r) ELSE r

InitClip == generate = [t \in Renderers |-> NoClip]

IdleClip == generate = [t \in {} |-> NoClip]

\* the call: lines 15-43
GenCall(t) ==
    /\ generate[t].pc = "idle"
    /\ generate' = [generate EXCEPT ![t] = [NoClip EXCEPT !.pc = "exists"]]
    /\ UNCHANGED offClip

\* lines 47-55: return False for a missing video; os.path.getsize raises
\* OSError for one that was removed since
GenExists(t) ==
    /\ generate[t].pc = "exists"
    /\ \E found \in BOOLEAN, sized \in BOOLEAN :
          generate' = [generate EXCEPT ![t] =
              IF ~found THEN Return(@, "False", "missing")
              ELSE IF ~sized THEN Raised(@, "getsize")
              ELSE [@ EXCEPT !.pc = "open"]]
    /\ UNCHANGED offClip

\* line 58: clip = VideoFileClip(video_path); a constructor that raises
\* leaves clip None
GenOpenClip(t) ==
    /\ generate[t].pc = "open"
    /\ \E ok \in BOOLEAN :
          generate' = [generate EXCEPT ![t] =
              IF ok
              THEN [@ EXCEPT !.clip = "clip", !.opened = "open",
                             !.pc = "duration"]
              ELSE Raised(@, "open")]
    /\ UNCHANGED offClip

\* line 61: if clip.duration <= 0 (a duration of None raises TypeError)
GenDuration(t) ==
    /\ generate[t].pc = "duration"
    /\ \E duration \in {"positive", "zero", "None"} :
          generate' = [generate EXCEPT ![t] =
              IF duration = "positive" THEN [@ EXCEPT !.pc = "get_frame"]
              ELSE IF duration = "zero" THEN [@ EXCEPT !.pc = "close_invalid"]
              ELSE Raised(@, "duration")]
    /\ UNCHANGED offClip

\* lines 63-64: clip.close(); return False (a close() that raises returns
\* False through line 98)
GenCloseInvalid(t) ==
    /\ generate[t].pc = "close_invalid"
    /\ generate' = [generate EXCEPT ![t] = Return(close(@), "False", "invalid")]
    /\ UNCHANGED offClip

\* lines 67-68: frame = clip.get_frame(frame_time)
GenGetFrame(t) ==
    /\ generate[t].pc = "get_frame"
    /\ \E ok \in BOOLEAN :
          generate' = [generate EXCEPT ![t] =
              IF ok THEN [@ EXCEPT !.pc = "close"] ELSE Raised(@, "get_frame")]
    /\ UNCHANGED offClip

\* lines 71-72: clip.close(); clip = None
GenCloseClip(t) ==
    /\ generate[t].pc = "close"
    /\ \E raised \in BOOLEAN :
          generate' = [generate EXCEPT ![t] =
              IF raised THEN Raised(close(@), "close")
              ELSE [close(@) EXCEPT !.clip = "None", !.pc = "scale"]]
    /\ UNCHANGED offClip

\* lines 75-76: Image.fromarray(frame); image.thumbnail(...)
GenScale(t) ==
    /\ generate[t].pc = "scale"
    /\ \E ok \in BOOLEAN :
          generate' = [generate EXCEPT ![t] =
              IF ok THEN [@ EXCEPT !.pc = "makedirs"] ELSE Raised(@, "resize")]
    /\ UNCHANGED offClip

\* lines 79-81: os.makedirs(thumbnail_dir, exist_ok=True)
GenMakedirs(t) ==
    /\ generate[t].pc = "makedirs"
    /\ \E ok \in BOOLEAN :
          generate' = [generate EXCEPT ![t] =
              IF ok THEN [@ EXCEPT !.pc = "save"] ELSE Raised(@, "makedirs")]
    /\ UNCHANGED offClip

\* lines 84-87: image.save(thumbnail_path, 'PNG', optimize=True); return True
GenSave(t) ==
    /\ generate[t].pc = "save"
    /\ \E ok \in BOOLEAN :
          generate' = [generate EXCEPT ![t] =
              IF ok THEN Return(@, "True", "success") ELSE Raised(@, "save")]
    /\ UNCHANGED offClip

\* lines 101-107, and the function returns
GenFinally(t) ==
    /\ generate[t].pc = "finally"
    /\ generate' = [generate EXCEPT ![t] = [Finally(@) EXCEPT !.pc = "idle"]]
    /\ UNCHANGED offClip

\* the threads of the pool render
NextClip ==
    \/ \E t \in Renderers : GenCall(t)
    \/ \E t \in Renderers : GenExists(t)
    \/ \E t \in Renderers : GenOpenClip(t)
    \/ \E t \in Renderers : GenDuration(t)
    \/ \E t \in Renderers : GenCloseInvalid(t)
    \/ \E t \in Renderers : GenGetFrame(t)
    \/ \E t \in Renderers : GenCloseClip(t)
    \/ \E t \in Renderers : GenScale(t)
    \/ \E t \in Renderers : GenMakedirs(t)
    \/ \E t \in Renderers : GenSave(t)
    \/ \E t \in Renderers : GenFinally(t)

(***************************************************************************)
(* The global pool: get_thumbnail_worker and shutdown_thumbnail_worker     *)
(* (workers/thumbnail_worker.py, lines 261-294), statement by statement.   *)
(* No lock protects _global_worker.                                        *)
(***************************************************************************)
\* what the global pool leaves alone
offGlobal == <<poolVars, thumbVars, nameVars, cacheVars, preVars, bootVars,
    histVars, safeVars, galVars, clipVars>>

\* the callers: the import of routes/media.py (line 21) and the
\* ThumbnailPreload thread (preload.py, line 52)
Getters == {"routes", "preload"}

\* the ThumbnailWorker objects built
PoolIds == 1 .. MaxPools

\* a caller outside get_thumbnail_worker that was given nothing yet
NoPool == [pc |-> "idle", got |-> 0]

\* ThumbnailWorker.start() as its caller sees it: the pool is running
start(p) == "running"

\* ThumbnailWorker.stop(wait=True)
stop(p) == IF p = "running" THEN "stopped" ELSE p

\* the pools that are running
Started == {p \in 1 .. Len(pools) : pools[p] = "running"}

InitGlobal ==
    /\ global_worker = 0
    /\ pools = <<>>
    /\ getters = [c \in Getters |-> NoPool]

IdleGlobal ==
    /\ global_worker = 0
    /\ pools = <<>>
    /\ getters = [c \in {} |-> NoPool]

\* the call of get_thumbnail_worker(num_threads)
GetCall(c) ==
    /\ getters[c].pc = "idle"
    /\ getters' = [getters EXCEPT ![c].pc = "check"]
    /\ UNCHANGED <<global_worker, pools, offGlobal>>

\* line 279: if _global_worker is None
GetCheck(c) ==
    /\ getters[c].pc = "check"
    /\ getters' = [getters EXCEPT ![c].pc =
                      IF global_worker = 0 THEN "create" ELSE "return"]
    /\ UNCHANGED <<global_worker, pools, offGlobal>>

\* line 280: _global_worker = ThumbnailWorker(num_threads=num_threads)
GetCreate(c) ==
    /\ getters[c].pc = "create"
    /\ Len(pools) < MaxPools
    /\ pools' = Append(pools, "built")
    /\ global_worker' = Len(pools) + 1
    /\ getters' = [getters EXCEPT ![c].pc = "start"]
    /\ UNCHANGED offGlobal

\* line 281: _global_worker.start(), on the object the global refers to
\* now; AttributeError if it is None again
GetStart(c) ==
    /\ getters[c].pc = "start"
    /\ IF global_worker = 0
       THEN /\ getters' = [getters EXCEPT ![c] = NoPool]
            /\ UNCHANGED pools
       ELSE /\ pools' = [pools EXCEPT ![global_worker] = start(@)]
            /\ getters' = [getters EXCEPT ![c].pc = "return"]
    /\ UNCHANGED <<global_worker, offGlobal>>

\* line 284: return _global_worker
GetReturn(c) ==
    /\ getters[c].pc = "return"
    /\ getters' = [getters EXCEPT ![c] = [pc |-> "idle", got |-> global_worker]]
    /\ UNCHANGED <<global_worker, pools, offGlobal>>

\* shutdown_thumbnail_worker (registered with atexit, app.py line 58):
\* stop the global pool and forget it; what was returned before does not
\* count for the calls that follow
Shutdown ==
    /\ global_worker # 0
    /\ pools' = [pools EXCEPT ![global_worker] = stop(@)]
    /\ global_worker' = 0
    /\ getters' = [c \in Getters |-> [getters[c] EXCEPT !.got = 0]]
    /\ UNCHANGED offGlobal

\* the callers of the global pool
NextGlobal ==
    \/ \E c \in Getters : GetCall(c)
    \/ \E c \in Getters : GetCheck(c)
    \/ \E c \in Getters : GetCreate(c)
    \/ \E c \in Getters : GetStart(c)
    \/ \E c \in Getters : GetReturn(c)
    \/ Shutdown

(***************************************************************************)
(* Specifications                                                          *)
(***************************************************************************)
Init ==
    InitPool /\ InitThumb /\ IdleSafe /\ IdleGallery /\ IdleClip /\ IdleGlobal
        /\ IdleName /\ IdleCache /\ IdlePreload /\ IdleBoot

SpecPool == Init /\ [][NextPool]_vars

SpecRestart == Init /\ [][NextRestart]_vars

SpecPoolFair == Init /\ [][NextFewJobs]_vars /\ SchedulingOfJobs

SpecRestartFair == Init /\ [][NextRestart]_vars /\ Scheduling

\* few jobs, every thread scheduled
SpecPoolScheduled == Init /\ [][NextFewJobs]_vars /\ Scheduling

SpecThumb == Init /\ [][NextThumb]_vars

\* every relative media path, before any component named its thumbnail
InitPaths ==
    InitPool /\ InitThumb /\ IdleSafe /\ IdleGallery /\ IdleClip /\ IdleGlobal
        /\ InitName /\ IdleCache /\ IdlePreload /\ IdleBoot

SpecName == InitPaths /\ [][NextName]_vars

\* get_safe_path for every base and every short relative path
InitSafePaths ==
    InitPool /\ InitThumb /\ InitSafe /\ IdleGallery /\ IdleClip /\ IdleGlobal /\ IdleName /\ IdleCache
        /\ IdlePreload /\ IdleBoot

SpecSafe == InitSafePaths /\ [][NextSafe]_vars

\* a gallery over every small directory
InitGalleries ==
    InitPool /\ InitThumb /\ IdleSafe /\ InitGal /\ IdleClip /\ IdleGlobal
        /\ IdleName /\ IdleCache /\ IdlePreload /\ IdleBoot

SpecGallery == InitGalleries /\ [][NextGallery]_vars

\* an empty cache of any ttl, over a directory in any condition
InitCaches ==
    InitPool /\ InitThumb /\ IdleSafe /\ IdleGallery /\ IdleClip /\ IdleGlobal
        /\ IdleName /\ InitCache /\ IdlePreload /\ IdleBoot

SpecCache == InitCaches /\ [][NextCache]_vars

SpecScan == InitCaches /\ [][NextScan]_vars

\* a media root in any condition, the preload thread about to scan it
InitMedia ==
    InitPool /\ InitThumb /\ IdleSafe /\ IdleGallery /\ IdleClip /\ IdleGlobal
        /\ IdleName /\ IdleCache /\ InitPreload /\ IdleBoot

\* the program before its first import, over a directory in any condition
InitProgram == InitPool /\ InitThumb /\ IdleSafe /\ IdleGallery /\ IdleClip /\ IdleGlobal
        /\ IdleName /\ IdlePreload /\ InitBoot

SpecBoot == InitProgram /\ [][NextBoot]_vars

\* the program with callers of invalidate_directory_cache, over a directory
\* that does not change and within one second
NextInvalidate ==
    \/ ImportScanner
    \/ CreateApp
    \/ boot = "serving" /\ \E t \in Scanners : ScanCall(t)
    \/ boot = "serving"
          /\ \E t \in Scanners, directory \in Dirs : ScanLookup(t, directory)
    \/ boot = "serving" /\ \E t \in Scanners : ScanWalk(t)
    \/ boot = "serving"
          /\ \E t \in Scanners, directory \in Dirs : ScanStore(t, directory)
    \/ boot = "serving" /\ \E t \in Scanners : ScanReturn(t)
    \/ \E directory \in Dirs : InvalidateDirectory(directory)

SpecInvalidate == InitProgram /\ [][NextInvalidate]_vars

SpecPreload == InitMedia /\ [][NextPreload]_vars

\* the ThumbnailPreload thread is scheduled
SpecPreloadFair == InitMedia /\ [][NextPreload]_vars /\ WF_vars(NextPreload)

\* the two threads of the pool, each about to render
InitRenders ==
    InitPool /\ InitThumb /\ IdleSafe /\ IdleGallery /\ InitClip /\ IdleGlobal
        /\ IdleName /\ IdleCache /\ IdlePreload /\ IdleBoot

SpecClip == InitRenders /\ [][NextClip]_vars

\* the program before its first call of get_thumbnail_worker
InitGetters ==
    InitPool /\ InitThumb /\ IdleSafe /\ IdleGallery /\ IdleClip /\ InitGlobal
        /\ IdleName /\ IdleCache /\ IdlePreload /\ IdleBoot

SpecGlobal == InitGetters /\ [][NextGlobal]_vars

(***************************************************************************)
(* Properties of the pool                                                  *)
(***************************************************************************)
Range(q) == {q[i] : i \in 1 .. Len(q)}

\* the worker threads that are rendering job j, running its callback or
\* about to mark it done
Processing(ws, j) ==
    {t \in BagToSet(ws) :
        t.job = j /\ t.pc \in {"render", "task_done"} \cup InCallback}

(* C1: add_job on a running pool whose queue already holds max_queue_size
   items returns False at once - its put is never disabled - and leaves the
   queue, its unfinished-task count and every statistic as they were. *)
C1_FullQueueRejects ==
    /\ [](\A c \in Producers : cpc[c] = "aj_put" => ENABLED AddJobPut(c))
    /\ [][\A c \in Producers :
             (cpc[c] = "aj_put" /\ Len(job_queue) = MaxQueueSize
                                /\ cpc'[c] # "aj_put")
             => /\ cret'[c] = "full"
                /\ cpc'[c] = "idle"
                /\ job_queue' = job_queue
                /\ unfinished_tasks' = unfinished_tasks
                /\ stats' = stats]_vars

C1_Witness ==
    \E c \in Producers :
        /\ cpc[c] = "idle" /\ cret[c] = "full"
        /\ running /\ Len(job_queue) = MaxQueueSize
        /\ PoisonPill \notin Range(job_queue)

(* C2: when wait_completion() returns, none of the jobs accepted before the
   call is still in the queue, and no worker is rendering one of them,
   running its callback or about to mark it done. *)
C2_DrainBarrier ==
    [][\A c \in Producers :
          (cpc[c] = "join" /\ cpc'[c] = "joined")
          => \A j \in accepted :
                /\ j \notin Range(job_queue')
                /\ Processing(workers', j) = {}
                /\ counted'[j] = 1]_vars

C2_Witness ==
    \E c \in Producers : cpc[c] = "joined" /\ Cardinality(accepted) >= 2

(* C3: right after wait_completion() has returned, with no add_job during or
   after the wait, the jobs_pending of get_stats() is 0. *)
C3_PendingZeroAfterDrain ==
    \A c \in Producers : cpc[c] = "joined" => get_stats.jobs_pending = 0

(* C4: every processed job increments exactly one of jobs_completed (render
   returned True) and jobs_failed (render returned False or raised), once;
   when wait_completion() returns on a running pool, jobs_completed +
   jobs_failed is the number of accepted jobs. *)
C4_EachJobCountedOnce ==
    /\ [](/\ \A j \in JobIds : counted[j] <= 1
          /\ \A j \in JobIds : counted[j] = 1 => j \in accepted
          /\ stats.jobs_completed = renders.ok
          /\ stats.jobs_failed = renders.failed
          /\ renders.ok + renders.failed
                = Cardinality({j \in JobIds : counted[j] = 1}))
    /\ [][\A c \in Producers :
             (cpc[c] = "join" /\ cpc'[c] = "joined" /\ running')
             => stats'.jobs_completed + stats'.jobs_failed
                   = Cardinality(accepted')]_vars

C4_Witness ==
    \E c \in Producers :
        /\ cpc[c] = "joined" /\ running
        /\ Cardinality(accepted) >= 2
        /\ stats.jobs_completed = 0
        /\ stats.jobs_failed = Cardinality(accepted)

(* C10: add_job on a pool that is not running - never started, or stopped -
   returns False at once and puts nothing on the queue. *)
C10_NotRunningRejects ==
    [][\A c \in Producers :
          (cpc[c] = "idle" /\ ~running /\ nextJob' = nextJob + 1)
          => /\ cret'[c] = "not_running"
             /\ cpc'[c] = "idle"
             /\ job_queue' = job_queue
             /\ unfinished_tasks' = unfinished_tasks
             /\ accepted' = accepted]_vars

C10_Witness ==
    \E c \in Producers :
        /\ cpc[c] = "idle" /\ cret[c] = "not_running"
        /\ ~running /\ nStarts > 0

(* C11: the job queue never holds more than max_queue_size items, and a put
   of add_job succeeds exactly when the queue holds fewer: with the workers
   blocked, the first max_queue_size of max_queue_size + 1 calls in a row
   return True and the last returns False. *)
C11_QueueBounded ==
    /\ [](Len(job_queue) <= MaxQueueSize)
    /\ [][\A c \in Producers :
             (cpc[c] = "aj_put" /\ cpc'[c] # "aj_put")
             => IF Len(job_queue) < MaxQueueSize
                THEN /\ cpc'[c] = "aj_stat"
                     /\ job_queue' = Append(job_queue, cjob[c])
                     /\ accepted' = accepted \cup {cjob[c]}
                ELSE /\ cpc'[c] = "idle" /\ cret'[c] = "full"
                     /\ job_queue' = job_queue /\ accepted' = accepted]_vars
    /\ [][\A c \in Producers :
             (cpc[c] = "aj_stat" /\ cpc'[c] # "aj_stat")
             => cpc'[c] = "idle" /\ cret'[c] = "added"]_vars

\* max_queue_size + 1 calls in a row on a running pool whose workers took
\* nothing: the queue holds the first max_queue_size jobs, the last call
\* returned False
C11_Witness ==
    \E c \in Producers :
        /\ running /\ cpc[c] = "idle" /\ cret[c] = "full"
        /\ nextJob = MaxQueueSize + 1
        /\ job_queue = [i \in 1 .. MaxQueueSize |-> i]
        /\ accepted = 1 .. MaxQueueSize

\* the number of worker threads inside the loop of _worker
LiveCount(ws) == BagCardinality(ws) - CopiesIn(Thread("stopped", PoisonPill), ws)

(* C12: whenever the pool is running, outside a call of start() or stop(),
   exactly num_threads worker threads consume the queue, start() being
   called after a stop() included. *)
C12_ExactlyNumThreads ==
    \A c \in Controllers :
        (running /\ cpc[c] = "idle") => LiveCount(workers) = num_threads

(* C13: after stop(), every worker thread eventually leaves its loop: once
   the pool is not running there comes a moment at which no worker thread is
   alive but those that a later start() has started. *)
C13_WorkersExit ==
    ~running ~> (LiveCount(workers) <= IF running THEN threads ELSE 0)

(* C14: a job that a worker has dequeued is processed to the end, whether or
   not stop() is called meanwhile: the worker renders it, updates one
   counter, calls the callback if there is one, marks the task done, and
   only then looks at the running flag again. *)
C14_DequeuedJobFinishes ==
    /\ \A j \in JobIds :
          (Processing(workers, j) # {})
              ~> (Processing(workers, j) = {} /\ counted[j] = 1)
    /\ [][\A j \in JobIds :
             LET before == Processing(workers, j)
                 after == Processing(workers', j)
             IN  before # {} =>
                    \/ after = before /\ counted'[j] = counted[j]
                    \/ /\ {t.pc : t \in before} = {"render"}
                       /\ {t.pc : t \in after} \subseteq InCallback \cup {"task_done"}
                       /\ after # {} /\ counted'[j] = counted[j] + 1
                    \/ /\ {t.pc : t \in before} \subseteq InCallback
                       /\ {t.pc : t \in after} = {"task_done"}
                       /\ counted'[j] = counted[j]
                    \/ /\ {t.pc : t \in before} = {"task_done"}
                       /\ after = {} /\ counted'[j] = counted[j]
                       /\ unfinished_tasks' = unfinished_tasks - 1
                       /\ BagIn(Thread("pending", j), workers')]_vars

\* a worker finished a job that it held while stop() cleared the flag
C14_Witness ==
    \E j \in JobIds :
        /\ ~running /\ counted[j] = 1
        /\ BagIn(Thread("task_done", j), workers)
        /\ PoisonPill \in Range(job_queue)

(* C15: stop() on a pool that is not running returns at once and changes
   nothing: the running flag, the queue (no further pill), the thread list
   and everything else are as they were, and the caller is back where it
   was. *)
C15_StopWhenStoppedIsNoOp ==
    \A c \in Controllers :
        (~running /\ cpc[c] = "idle") =>
            /\ ENABLED StopCheck(c)
            /\ ~ENABLED (StopCheck(c) /\ vars' # vars)

\* a pool that was started and stopped, the pills of that stop still queued
\* and a worker still alive: the state in which a second stop() returns at
\* its first statement
C15_Witness ==
    \E c \in Controllers :
        /\ ~running /\ cpc[c] = "idle" /\ nStarts = 1 /\ threads = 0
        /\ PoisonPill \in Range(job_queue)
        /\ Live(workers) # {}
        /\ ENABLED (StopCheck(c) /\ vars' = vars)

\* the worker threads inside the callback of job j
Calling(ws, j) == {t \in BagToSet(ws) : t.job = j /\ t.pc \in InCallback}

(* C16: a callback that raises neither ends the worker thread nor leaks the
   job. Whether the callback returns or raises, the thread goes from the
   callback to task_done() with the job's counter already updated and
   untouched, from there round the loop again, and no thread ever ends while
   it holds a job. The callback of a job is entered once, by the one thread
   that rendered it, as the job is counted, with True exactly when the
   render succeeded. *)
C16_CallbackContained ==
    /\ [](\A t \in BagToSet(workers) : t.pc = "stopped" => t.job = PoisonPill)
    /\ [][\A j \in JobIds :
             LET before == Calling(workers, j)
                 after == Calling(workers', j)
             IN  /\ (before # {} /\ after # before) =>
                        /\ after = {}
                        /\ BagIn(Thread("task_done", j), workers')
                        /\ BagCardinality(workers') = BagCardinality(workers)
                        /\ counted[j] = 1
                        /\ UNCHANGED <<counted, stats, unfinished_tasks,
                                       job_queue, running>>
                 /\ (before = {} /\ after # {}) =>
                        /\ BagIn(Thread("render", j), workers)
                        /\ counted[j] = 0 /\ counted'[j] = 1
                        /\ after = {Thread(IF renders'.ok = renders.ok + 1
                                           THEN "callback"
                                           ELSE "callback_failed", j)}
                        /\ \A t \in after : CopiesIn(t, workers') = 1
                 /\ BagIn(Thread("pending", j), workers) =>
                        \/ BagIn(Thread("pending", j), workers')
                        \/ BagIn(Thread("loop", PoisonPill), workers')]_vars

\* a worker is inside callback(video_path, thumbnail_path, False) for a job
\* it has counted as failed, and the next job waits in the queue
C16_Witness ==
    \E j \in JobIds :
        /\ BagIn(Thread("callback_failed", j), workers)
        /\ counted[j] = 1 /\ stats.jobs_failed = 1
        /\ job_queue # <<>> /\ Head(job_queue) \in JobIds
        /\ ENABLED WorkerCallback(Thread("callback_failed", j))

(***************************************************************************)
(* Properties of the thumbnail file                                        *)
(***************************************************************************)
(* C5: while generate_video_thumbnail writes the thumbnail, no size check of
   a concurrent request (serve_thumbnail line 59, ensure_thumbnail_exists
   line 155) finds the file with size > 0 before it is a complete image. *)
C5_NoPartialRead ==
    \A t \in Requests : req[t].seen # "partial"

(* C7, as stated: given a zero-byte file at the thumbnail path,
   ensure_thumbnail_exists deletes it, and then returns the path of a
   freshly written complete thumbnail or returns the placeholder. *)
C7_ZeroByteDeleted ==
    \A t \in Requests :
        (req[t].given = "empty" /\ req[t].safe /\ req[t].ret # "none")
        => /\ req[t].removed = "ok"
           /\ \/ req[t].ret = "placeholder"
              \/ req[t].ret = "path" /\ req[t].rendered /\ thumb = "complete"

\* no thread but t has called anything yet
Alone(t) == \A u \in Requests \ {t} : req[u] = Fresh

(* C7, amended: given a zero-byte file at the thumbnail path,
   ensure_thumbnail_exists returns the placeholder and leaves the file when
   the path is unsafe or the video is missing. Otherwise, when its size check
   finds the file empty, it calls os.remove on it before it renders (going on
   when the removal fails) and returns the path only if its own image.save
   ran to the end, else the placeholder. It returns the path only after its
   size check found size > 0 or its own save ran to the end; with no other
   thread at work on the file, the path it returns is that of a complete
   thumbnail written by this call, never that of a zero-byte file. *)
C7_ZeroByteHealed ==
    \A t \in Requests :
        (req[t].given = "empty" /\ req[t].ret # "none")
        => /\ req[t].ret \in {"path", "placeholder"}
           /\ req[t].seen = "empty" =>
                 /\ req[t].removed \in {"ok", "failed", "gone"}
                 /\ req[t].ret = "path" => req[t].rendered
           /\ req[t].ret = "path" =>
                 req[t].rendered \/ req[t].seen \in {"partial", "complete"}
           /\ req[t].removed # "none" => req[t].seen = "empty"
           /\ ~req[t].safe =>
                 /\ req[t].ret = "placeholder" /\ ~req[t].rendered
                 /\ req[t].seen = "none" /\ req[t].removed = "none"
           /\ Alone(t) =>
                 /\ req[t].seen \in {"none", "empty"}
                 /\ req[t].seen = "none" =>
                       /\ req[t].ret = "placeholder" /\ thumb = "empty"
                       /\ req[t].removed = "none"
                 /\ req[t].seen = "empty" => req[t].removed \in {"ok", "failed"}
                 /\ req[t].ret = "path" => thumb = "complete"

C7_Witness ==
    \E t \in Requests :
        /\ Alone(t)
        /\ req[t].given = "empty" /\ req[t].seen = "empty"
        /\ req[t].removed = "ok"
        /\ req[t].ret = "path" /\ thumb = "complete"

(***************************************************************************)
(* Properties of the thumbnail names                                       *)
(***************************************************************************)
Named == {c \in Components : names[c] # NoName}

(* C8: for every relative media path, ensure_thumbnail_exists,
   serve_thumbnail and the preload orchestrator compute the same thumbnail
   filename: the separators replaced by "_", a name longer than 200
   characters replaced by its md5 digest and its extension, ".png" at the
   end. *)
C8_SameName ==
    /\ \A c \in Named, e \in Named : names[c] = names[e]
    /\ \A c \in Named :
          LET name == names[c]
          IN  /\ name.tail[Len(name.tail)] = ".png"
              /\ "/" \notin Range(name.tail) /\ "\\" \notin Range(name.tail)
              /\ name.head.hashed <=> len(path) > LongName
              /\ name.head.hashed =>
                    /\ Len(name.head.of) = Len(path)
                    /\ \A i \in 1 .. Len(path) :
                          name.head.of[i] =
                              IF path[i] \in {"/", "\\"} THEN "_" ELSE path[i]
              /\ ~name.head.hashed =>
                    /\ Len(name.tail) = Len(path) + 1
                    /\ \A i \in 1 .. Len(path) :
                          name.tail[i] =
                              IF path[i] \in {"/", "\\"} THEN "_" ELSE path[i]

C8_Witness ==
    /\ Named = Components
    /\ "\\" \in Range(path) /\ "/" \in Range(path)
    /\ names["preload"].head.hashed

(***************************************************************************)
(* Properties of the directory cache                                       *)
(***************************************************************************)
(* C6: SimpleCache.get(key) returns the stored value if and only if the key
   was set, not invalidated or cleared since, and now - storedAt < ttl; it
   never returns an entry of age >= ttl, and a get that finds an expired
   entry removes it from the cache. *)
C6_GetWithinTtl ==
    last.op = "get" =>
        LET entry == stored[last.key]
            live == entry.set /\ now - entry.at < ttl
        IN  /\ last.ret.hit <=> live
            /\ last.ret.hit => last.ret.value = entry.value
            /\ ~live => last.key \notin DOMAIN cache

C6_Witness ==
    /\ last.op = "get" /\ ~last.ret.hit
    /\ stored[last.key].set /\ now - stored[last.key].at = ttl
    /\ last.key \notin DOMAIN cache
    /\ \E k \in DOMAIN cache : now - cache[k].timestamp < ttl

\* the step of a scan that found no media files, from the walk to the return
EmptyScanEnds(t) ==
    /\ scan[t].pc = "store" /\ scan'[t].pc = "done"
    /\ scan[t].use_cache /\ scan[t].media = <<>>

\* the keys of a directory in the cache
KeysOf(directory) == {scan_key(directory, dims) : dims \in BOOLEAN}

(* C9, as stated: scan_directory(use_cache=True) never stores an empty
   result, and after a scan that finds no media files the cache holds no
   entry for that directory. *)
C9_NoEntryAfterEmptyScan ==
    /\ [](\A k \in DOMAIN cache : cache[k].value # <<>>)
    /\ [][\A t \in Scanners, d \in Dirs :
             EmptyScanEnds(t) => KeysOf(d) \cap DOMAIN cache' = {}]_vars

(* C9, amended: scan_directory(use_cache=True) never stores an empty result.
   A scan that finds no media files leaves the cache as it is; its lookup,
   before the walk, left no entry under its own key (the directory and the
   include_dimensions flag), and dropped an expired one. An entry under the
   key of the other flag, or one that a concurrent scan has stored since the
   lookup, can be in the cache after the scan. *)
C9_EmptyNeverStored ==
    /\ [](\A k \in DOMAIN cache : cache[k].value # <<>>)
    /\ [][\A t \in Scanners : EmptyScanEnds(t) => cache' = cache]_vars
    /\ [][\A t \in Scanners, d \in Dirs :
             (scan[t].pc = "lookup" /\ scan'[t].pc = "walk")
             => scan_key(d, scan[t].dims) \notin DOMAIN cache']_vars

C9_Witness ==
    \E t \in Scanners, d \in Dirs :
        /\ scan[t].pc = "done" /\ scan[t].use_cache /\ scan[t].media = <<>>
        /\ scan_key(d, scan[t].dims) \notin DOMAIN cache
        /\ scan_key(d, ~scan[t].dims) \in DOMAIN cache

\* the include_dimensions setting a cache key was built for, and the one a
\* list was walked with
FlagOf(key) == key[Len(key)] = "_with_dims"
WalkedWith(list, include_dimensions) ==
    \A i \in DOMAIN list :
        list[i][2] = IF include_dimensions THEN "measured" ELSE "default"

(* C19: the lists scanned with and without dimensions live under two cache
   keys. Every entry holds a list walked with the setting of its key; a scan
   answered from the cache returns a list walked with its own setting; and a
   scan that stores its list leaves the entry of the other setting, if there
   is one, as it was. *)
C19_SeparateEntries ==
    /\ [](\A k \in DOMAIN cache : WalkedWith(cache[k].value, FlagOf(k)))
    /\ [][\A t \in Scanners :
             (scan[t].pc = "lookup" /\ scan'[t].pc = "done") =>
                /\ scan'[t].media # <<>>
                /\ WalkedWith(scan'[t].media, scan[t].dims)]_vars
    /\ [][\A t \in Scanners :
             (scan[t].pc = "store" /\ scan'[t].pc = "done") =>
                \A k \in DOMAIN cache \cup DOMAIN cache' :
                    FlagOf(k) # scan[t].dims =>
                        /\ k \in DOMAIN cache /\ k \in DOMAIN cache'
                        /\ cache'[k] = cache[k]]_vars

\* both entries of the directory are in the cache, with different lists of
\* files, and a scan has just stored or been answered from one of them
C19_Witness ==
    \E t \in Scanners, d \in Dirs :
        /\ scan_key(d, TRUE) \in DOMAIN cache
        /\ scan_key(d, FALSE) \in DOMAIN cache
        /\ Len(cache[scan_key(d, TRUE)].value)
              # Len(cache[scan_key(d, FALSE)].value)
        /\ scan[t].pc = "done" /\ scan[t].use_cache
        /\ scan[t].media = cache[scan_key(d, scan[t].dims)].value
        /\ Len(scan[t].media) # Len(fs)


(***************************************************************************)
(* Properties of the preload                                               *)
(***************************************************************************)
\* the video files under media_root without a non-empty thumbnail file
NeedsThumbnail == {f \in Files : media_root[f] = "video" /\ thumbs[f] # "valid"}

(* C17: when preload_worker has ended, the files it handed to add_job are
   the scanned videos without a non-empty thumbnail file: every one of them,
   and no video whose thumbnail file exists with size > 0. *)
C17_MissingThumbnailsQueued ==
    ppc = "done" =>
        \A f \in Files :
            media_root[f] = "video" => (f \in queued <=> f \in NeedsThumbnail)

(* C18: the preload submits its jobs batch after batch: every video that
   needs a thumbnail when the preload starts is eventually handed to
   add_job. *)
C18_BatchesSubmitted ==
    \A f \in Files : (ppc = "scan" /\ f \in NeedsThumbnail) ~> (f \in queued)

(***************************************************************************)
(* Properties of the start of the program                                  *)
(***************************************************************************)
(* C20: once create_app has called setup_caches(directory_ttl=T), with T the
   configured cache_ttl, scan_directory returns no cached entry whose age
   has reached T. *)
C20_ConfiguredTtlApplies ==
    [][\A t \in Scanners, d \in Dirs :
          (/\ boot = "serving" /\ Len(caches) = 2
           /\ scan[t].pc = "lookup" /\ scan'[t].pc = "done")
          => now - cache[scan_key(d, scan[t].dims)].timestamp < cache_ttl]_vars

(* C21: a scan_directory(d, use_cache=True) called after
   invalidate_directory_cache(d) is not answered with an entry, of either
   setting, that was cached before the invalidation. *)
C21_InvalidatedNotReturned ==
    [][\A t \in Scanners, d \in Dirs :
          (scan[t].pc = "lookup" /\ scan'[t].pc = "done")
          => t \notin stale[scan_key(d, scan[t].dims)]]_vars

(***************************************************************************)
(* Properties of ensure_thumbnail_exists and serve_thumbnail               *)
(***************************************************************************)
(* C22: for a safe path whose video exists, ensure_thumbnail_exists returns
   in one of two ways: from its size check with the thumbnail path, the file
   there being non-empty, without a render; or from the end of
   generate_video_thumbnail, which it called once, with the path when the
   render succeeded and the placeholder when it failed. *)
C22_EnsureReusesOrRenders ==
    [][\A t \in Requests :
          (req[t].ret = "none" /\ req'[t].ret # "none" /\ req[t].safe) =>
             \/ req[t].pc = "e_safe" /\ ~source
             \/ /\ req[t].pc = "e_size"
                /\ ValidSize(thumb) /\ req'[t].ret = "path"
                /\ ~req'[t].rendered
             \/ /\ req[t].pc \in {"g_start", "g_decode", "g_open", "g_write",
                                  "g_close"}
                /\ req'[t].ret = "placeholder" /\ ~req'[t].rendered
             \/ /\ req[t].pc = "g_close"
                /\ req'[t].ret = "path" /\ req'[t].rendered]_vars

(* C23: when image.save fails while generate_video_thumbnail writes the
   thumbnail, and no other thread is at work on the file, the function
   returns False and the destination is not left as a partially written file
   of non-zero size. *)
C23_NoPartialOutput ==
    [][\A t \in Requests :
          (/\ Alone(t)
           /\ req[t].pc \in {"g_write", "g_close"}
           /\ req'[t].pc \notin {"g_write", "g_close"}
           /\ ~req'[t].rendered)
          => req'[t].ret = "placeholder" /\ thumb' # "partial"]_vars

\* a thread whose render of the thumbnail ran to the end and has returned
Finished(t) == req[t].rendered /\ req[t].pc \in {"idle", "sv_result"}

(* C24: when a request thread and a thread of the pool have rendered the
   same video to the same thumbnail path, overlapping or not, then once both
   renders have run to the end the file at the path is a complete thumbnail:
   the render may be done twice, the file is not left corrupt. *)
C24_BothFinishedComplete ==
    (\A t \in Requests : Finished(t)) => thumb = "complete"

\* both renders ran to the end, and the request thread opened the file that
\* the thread of the pool had created in the meantime
C24_Witness ==
    \E t \in Requests, u \in Requests :
        /\ Finished(t) /\ req[t].via = "serve" /\ ~req[t].created
        /\ Finished(u) /\ req[u].via = "worker" /\ req[u].created
        /\ req[t].given = "absent"

(* C25: serve_thumbnail never answers with an error page, and a request for
   which ensure_thumbnail_exists could not produce the thumbnail is answered
   with the configured placeholder. *)
C25_DegradesToPlaceholder ==
    \A t \in Requests :
        /\ req[t].resp # "error"
        /\ (req[t].via = "serve" /\ req[t].pc = "idle"
                                 /\ req[t].ret = "placeholder")
           => req[t].resp = "placeholder"

\* the video exists, the render was tried and failed, the request is answered
C25_Witness ==
    \E t \in Requests :
        /\ source /\ req[t].safe
        /\ req[t].via = "serve" /\ req[t].pc = "idle"
        /\ req[t].ret = "placeholder" /\ ~req[t].rendered
        /\ req[t].resp = "placeholder"

(***************************************************************************)
(* Properties of get_safe_path                                             *)
(***************************************************************************)
\* the place a path names, as the names from the root down to it: "." stays,
\* ".." goes to the parent, which for the root is the root
RECURSIVE Follow(_, _)
Follow(comps, place) ==
    IF comps = <<>> THEN place
    ELSE Follow(Tail(comps),
                IF Head(comps) \in {<<>>, curdir} THEN place
                ELSE IF Head(comps) # pardir THEN Append(place, Head(comps))
                ELSE IF place = <<>> THEN place
                ELSE SubSeq(place, 1, Len(place) - 1))

Place(s) ==
    Follow(split(s), IF isabs(s) THEN <<>> ELSE Follow(split(getcwd), <<>>))

\* the place of s is the place of base or lies under it
Inside(base, s) ==
    LET b == Place(base)
        q == Place(s)
    IN  Len(q) >= Len(b) /\ SubSeq(q, 1, Len(b)) = b

(* C26: get_safe_path(base, rel) returns a path only if the join of base and
   rel names base itself or a place under base, and then the path it returns
   names that place; it returns None for every rel whose join with base
   leaves base, through ".." components or as an absolute path. *)
C26_SafePathInsideBase ==
    safe_path # NotCalled =>
        LET joined == join(base_dir, relative_path)
        IN  /\ safe_path # NoPath =>
                 /\ Inside(base_dir, joined)
                 /\ Place(safe_path) = Place(joined)
            /\ ~Inside(base_dir, joined) => safe_path = NoPath

\* a relative path that climbs out of the base through "..", refused
C26_Witness ==
    /\ safe_path = NoPath
    /\ base_dir = <<"/", "a">>
    /\ ~isabs(relative_path)
    /\ \E i \in 1 .. Len(split(relative_path)) :
          split(relative_path)[i] = pardir

(***************************************************************************)
(* Properties of scan_directory, get_sorted_files and the gallery pages    *)
(***************************************************************************)
\* the records of a result that are about the i-th file of the directory
RecordsOf(i) ==
    {j \in 1 .. Len(result.media) : result.media[j].path.file = i}

(* C27: over a directory it can read, scan_directory returns exactly one
   record for every file that exists, is readable and has a supported
   extension, and none for any other file; the thumbnail of the record is
   "/media/<rel>" for an image and "/thumbnail/<rel>" for a video. *)
C27_OneRecordPerMediaFile ==
    (call.fn = "scan_directory" /\ walk_ok) =>
        /\ \A i \in 1 .. Len(listing) :
              Cardinality(RecordsOf(i)) =
                 IF listing[i].kind # "other" /\ listing[i].condition = "ok"
                 THEN 1 ELSE 0
        /\ \A j \in 1 .. Len(result.media) :
              LET item == result.media[j]
              IN  /\ item.path.file \in 1 .. Len(listing)
                  /\ item.path.folder = ""
                  /\ item.path.kind = listing[item.path.file].kind
                  /\ item.thumbnail.path = item.path
                  /\ item.thumbnail.prefix =
                        IF item.path.kind = "video" THEN "/thumbnail/"
                                                    ELSE "/media/"

\* a readable video next to a file that is left out
C27_Witness ==
    /\ call.fn = "scan_directory" /\ walk_ok
    /\ Len(listing) = 2 /\ Len(result.media) = 1
    /\ result.media[1].thumbnail.prefix = "/thumbnail/"
    /\ \E i \in 1 .. 2 : listing[i].kind = "image" /\ listing[i].condition # "ok"

(* C28: when the directory itself cannot be read, scan_directory raises the
   error to its caller. *)
C28_RootErrorPropagates ==
    (call.fn = "scan_directory" /\ ~walk_ok) => result.raised

(* C29: no step changes a record of a list that is stored in the directory
   cache: path, thumbnail, width and height stay as the scan wrote them. *)
C29_CachedRecordsUnchanged ==
    [][\A include_dimensions \in BOOLEAN :
          cached[include_dimensions] # 0 =>
             \A j \in 1 .. Len(lists[cached[include_dimensions]]) :
                LET item == lists[cached[include_dimensions]][j]
                IN  dicts'[item] = dicts[item]]_vars

\* the files of a result come in the order of the walk
InScanOrder(media) ==
    \A i, j \in 1 .. Len(media) : i < j => media[i].path.file < media[j].path.file

(* C30: a gallery page sorted by "random" or "new" leaves the list stored in
   the directory cache with the same records in the same order, and a cached
   scan_directory returns its records in the order of the scan. *)
C30_SortLeavesCachedList ==
    [][/\ (call'.fn = "handle_gallery" /\ call'.sort_by \in {"random", "new"})
          => \A include_dimensions \in BOOLEAN :
                cached[include_dimensions] # 0 =>
                   /\ cached'[include_dimensions] = cached[include_dimensions]
                   /\ lists'[cached[include_dimensions]] =
                         lists[cached[include_dimensions]]
       /\ (call'.fn = "scan_directory" /\ call'.use_cache)
          => InScanOrder(result'.media)]_vars

\* a shuffled page that starts with the second record of the cached list
C30_Witness ==
    /\ call.fn = "handle_gallery" /\ call.sort_by = "random" /\ call.page = 1
    /\ cached[FALSE] # 0
    /\ Len(lists[cached[FALSE]]) = 2
    /\ Len(result.media) = 1
    /\ result.media[1].path.file = 2

(***************************************************************************)
(* Properties of the pool: waiting and the order of a worker's steps       *)
(***************************************************************************)
(* C31: wait_completion(timeout=t) does not wait beyond t: whenever a caller
   is waiting, with jobs outstanding or not, its call can return (False when
   the time is up with jobs outstanding, True when all jobs are done). The
   timeout can be any positive time, so a waiting call must be able to
   return in every state. *)
C31_TimeoutEndsWait ==
    \A c \in Producers : cpc[c] = "join" => ENABLED WaitReturn(c)

\* the jobs a counter has been updated for
Counted == {j \in JobIds : counted[j] >= 1}

(* C32: for each job a worker first dequeues it, then renders it and updates
   jobs_completed or jobs_failed, and only then recomputes jobs_pending from
   the size of the queue at that moment: a job that is being rendered has
   left the queue and has no counter yet, and when a worker recomputes
   jobs_pending for a job, the counters already include that job and the
   step leaves them alone. *)
C32_PendingAfterCounter ==
    /\ [](\A t \in BagToSet(workers) :
            /\ t.pc = "render"
                  => t.job \notin Range(job_queue) /\ counted[t.job] = 0
            /\ t.pc \in InCallback \cup {"task_done", "pending"}
                  => /\ counted[t.job] = 1
                     /\ stats.jobs_completed + stats.jobs_failed
                           >= Cardinality(Counted))
    /\ [][\A j \in JobIds :
             (/\ BagIn(Thread("pending", j), workers)
              /\ ~BagIn(Thread("pending", j), workers'))
             => /\ counted[j] = 1
                /\ stats'.jobs_pending = qsize(job_queue)
                /\ stats'.jobs_completed = stats.jobs_completed
                /\ stats'.jobs_failed = stats.jobs_failed
                /\ counted' = counted]_vars

\* a worker has recomputed jobs_pending for a counted job while another job
\* was waiting in the queue
C32_Witness ==
    \E j \in Counted :
        /\ Processing(workers, j) = {}
        /\ ~BagIn(Thread("pending", j), workers)
        /\ stats.jobs_completed + stats.jobs_failed = 1
        /\ job_queue # <<>> /\ PoisonPill \notin Range(job_queue)
        /\ stats.jobs_pending = qsize(job_queue)
        /\ \A t \in BagToSet(workers) : t.pc \in {"loop", "get"}

(***************************************************************************)
(* Properties of generate_video_thumbnail's clip                           *)
(***************************************************************************)
(* C33: every VideoFileClip that generate_video_thumbnail opened is closed
   when the function returns, whichever way it leaves: success, a duration
   <= 0, a frame that cannot be decoded, a failing resize, a failing save or
   any other exception; and no statement after the return closes it. *)
C33_ClipClosedOnReturn ==
    /\ [](\A t \in Renderers :
            generate[t].pc = "idle" => generate[t].opened # "open")
    /\ [][\A t \in Renderers :
             (generate[t].pc # "idle" /\ generate'[t].pc = "idle")
             => /\ generate'[t].opened \in {"none", "closed"}
                /\ generate'[t].opened = "none" <=> generate[t].opened = "none"
                /\ generate'[t].ret = generate[t].ret
                /\ generate'[t].ret = "True" <=> generate[t].exit = "success"]_vars

\* one thread returned False after a frame it could not decode, the other
\* after a save that failed, both with their clip closed
C33_Witness ==
    \E t, u \in Renderers :
        /\ generate[t].pc = "idle" /\ generate[t].exit = "get_frame"
        /\ generate[t].ret = "False" /\ generate[t].opened = "closed"
        /\ generate[u].pc = "idle" /\ generate[u].exit = "save"
        /\ generate[u].ret = "False" /\ generate[u].opened = "closed"

(***************************************************************************)
(* Properties of the global pool                                           *)
(***************************************************************************)
(* C40: between shutdowns every caller of get_thumbnail_worker is given the
   same pool, and that pool is started, however the first calls interleave:
   at most one pool built by get_thumbnail_worker is running at a time, a
   call returns a running pool, and two calls return the same one. *)
C40_OneGlobalPool ==
    /\ Cardinality(Started) <= 1
    /\ \A c \in Getters :
          getters[c].got # 0 => pools[getters[c].got] = "running"
    /\ \A c, d \in Getters :
          (getters[c].got # 0 /\ getters[d].got # 0)
              => getters[c].got = getters[d].got

(***************************************************************************)
(* Properties of scan_directory and the directory cache                    *)
(***************************************************************************)
(* C34: scan_directory(use_cache=False) neither reads nor writes the
   directory cache: it goes straight to the walk, returns what the walk
   finds now, and none of its steps changes an entry, its value or its
   timestamp. *)
C34_UncachedScanLeavesCache ==
    /\ [](\A t \in Scanners : ~scan[t].use_cache => scan[t].pc # "lookup")
    /\ [][\A t \in Scanners :
             (scan'[t] # scan[t] /\ ~scan'[t].use_cache /\ scan'[t].pc # "idle")
             => /\ cache' = cache
                /\ scan[t].pc = "idle" => scan'[t].pc = "walk"
                /\ scan[t].pc = "walk"
                      => /\ scan'[t].pc = "store"
                         /\ scan'[t].media = Walk(fs, scan[t].dims)
                /\ scan[t].pc = "store"
                      => /\ scan'[t].pc = "done"
                         /\ scan'[t].media = scan[t].media]_vars

\* a scan without the cache has the files of the directory while the cache
\* keeps an older list under the same key
C34_Witness ==
    \E t \in Scanners, d \in Dirs :
        LET key == scan_key(d, scan[t].dims)
        IN  /\ scan[t].pc = "done" /\ ~scan[t].use_cache
            /\ scan[t].media = Walk(fs, scan[t].dims)
            /\ scan[t].media # <<>>
            /\ key \in DOMAIN cache
            /\ cache[key].value # scan[t].media
            /\ cache[key].timestamp < now

(* C35: once scan_directory(d, use_cache=True) has returned a non-empty
   list, the list is in the cache under the key of d and include_dimensions,
   and it stays there until its age reaches the ttl (nothing clears the
   cache here): an entry is only ever replaced by a newer one or dropped at
   an age >= ttl, and a scan with the cache that finds an entry younger
   than the ttl returns its list as it is, without a walk, whatever the
   directory holds by then. *)
C35_CachedScanWithinTtl ==
    [][/\ \A k \in DOMAIN cache :
             \/ k \in DOMAIN cache' /\ cache'[k].timestamp >= cache[k].timestamp
             \/ k \notin DOMAIN cache' /\ now - cache[k].timestamp >= ttl
       /\ \A t \in Scanners, d \in Dirs :
             LET key == scan_key(d, scan[t].dims)
             IN  /\ (/\ scan[t].pc = "store" /\ scan'[t].pc = "done"
                     /\ scan[t].use_cache /\ scan[t].media # <<>>)
                    => /\ key \in DOMAIN cache'
                       /\ cache'[key] = [value |-> scan[t].media,
                                         timestamp |-> now]
                 /\ (/\ scan[t].pc = "lookup" /\ scan'[t].pc # "lookup"
                     /\ key \in DOMAIN cache
                     /\ now - cache[key].timestamp < ttl)
                    => /\ scan'[t].pc = "done"
                       /\ scan'[t].media = cache[key].value
                       /\ cache' = cache]_vars

\* a scan with the cache holds the list stored a second ago, which is not
\* what the directory holds now
C35_Witness ==
    \E t \in Scanners, d \in Dirs :
        LET key == scan_key(d, scan[t].dims)
        IN  /\ scan[t].pc = "done" /\ scan[t].use_cache
            /\ key \in DOMAIN cache
            /\ scan[t].media = cache[key].value
            /\ scan[t].media # Walk(fs, scan[t].dims)
            /\ cache[key].timestamp < now
            /\ now - cache[key].timestamp < ttl

(***************************************************************************)
(* Properties of the thumbnail filenames: two paths                        *)
(***************************************************************************)
\* the filename a component computes for a relative path
thumbnail_name(c, filename) ==
    CASE c = "ensure" -> ensure_thumbnail_name(filename)
      [] c = "serve" -> serve_thumbnail_name(filename)
      [] c = "preload" -> preload_thumbnail_name(filename)

(* C36: two different relative media paths never get the same thumbnail
   filename: the name a component has computed for a path is not the name
   of any other path. *)
C36_DistinctPathsDistinctNames ==
    \A c \in Named :
        \A other \in Paths \ {path} : names[c] # thumbnail_name(c, other)

(***************************************************************************)
(* Properties of the pool: what stop() leaves behind                       *)
(***************************************************************************)
(* C37: every job for which add_job returned True is processed in the end -
   counted as completed or as failed - also when stop() is called while the
   job is queued. *)
C37_AcceptedJobProcessed ==
    \A j \in JobIds : (j \in accepted) ~> (counted[j] = 1)

(* C38: renders and callbacks return, and then every call of
   wait_completion() returns in the end, in whatever state of the pool it
   was made, after or during a stop() included: neither the None items
   stop() queued nor the jobs it left in the queue keep the count of
   unfinished tasks above zero for ever. *)
C38_WaitReturns ==
    \A c \in Producers : (cpc[c] = "join") ~> (cpc[c] = "joined")

(***************************************************************************)
(* Properties of the preload: the videos reach the pool                    *)
(***************************************************************************)
(* C39: every video that has no valid thumbnail when the preload starts is
   in the end accepted by the pool and rendered, however many there are. The
   preload thread is the only one that submits them, so when it has ended
   each of them has been handed to add_job. *)
C39_MissingVideosReachPool ==
    \A f \in Files :
        (ppc = "scan" /\ f \in NeedsThumbnail) ~> (ppc = "done" /\ f \in queued)
====
